---- MODULE Spec2Model ----
(***************************************************************************)
(* wpdocs: the symbol Registry (internal/model), the concurrent ingestion  *)
(* of per-file extraction results by Parser.ParseFiles (internal/parser)   *)
(* and the four-pass cross-reference Resolver (internal/resolver).         *)
(*                                                                         *)
(* Strings are sequences of one-character strings, so that the string      *)
(* functions of the code (ReplaceAll, LastIndexAny, TrimSpace, TrimSuffix) *)
(* are computed, not assumed.  A *Symbol is an address into heap; 0 is nil. *)
(***************************************************************************)
EXTENDS Integers, Sequences, FiniteSets, TLC

\* ------------------------------------------------------------------ bounds
MaxWorkers == 2
NumPHPFiles == 3
NumJSFiles == 1
MaxUnits == 2
NumAdders == 2
AddsPerCaller == 2
NumReaders == 1
MaxReads == 2
MaxFires == 2
MaxAdds == 3

\* ----------------------------------------------------------------- strings
NIL == 0

Str_hook == <<"h", "o", "o", "k", ":">>
Str_init == <<"i">>
Str_parens == <<"(", ")">>
Str_dcolon == <<":", ":">>
Str_dot == <<".">>
Str_bslash == <<"\\">>
SepChars == {"\\", "/", ":"}
SpaceChars == {" "}

Chr(i) == <<"1", "2", "3", "4", "5", "6", "7", "8", "9">>[i]

Max(S) == CHOOSE x \in S : \A y \in S : y <= x

\* strings.ReplaceAll(s, old, new) for one-character old and new
ReplaceAll(s, old, new) == [i \in 1..Len(s) |-> IF s[i] = old THEN new ELSE s[i]]

\* strings.LastIndexAny(s, chars): the last position holding one of chars, as a
\* 1-based position; 0 when there is none (Go: 0-based, -1)
LastIndexAny(s, chars) == Max({0} \cup {i \in 1..Len(s) : s[i] \in chars})

RECURSIVE TrimLeft(_)
TrimLeft(s) == IF s # <<>> /\ Head(s) \in SpaceChars THEN TrimLeft(Tail(s)) ELSE s

RECURSIVE TrimRight(_)
TrimRight(s) ==
    IF s # <<>> /\ s[Len(s)] \in SpaceChars THEN TrimRight(SubSeq(s, 1, Len(s) - 1)) ELSE s

\* strings.TrimSpace
TrimSpace(s) == TrimRight(TrimLeft(s))

HasSuffix(s, suf) ==
    Len(s) >= Len(suf) /\ SubSeq(s, Len(s) - Len(suf) + 1, Len(s)) = suf

\* strings.TrimSuffix: removes one trailing occurrence
TrimSuffix(s, suf) == IF HasSuffix(s, suf) THEN SubSeq(s, 1, Len(s) - Len(suf)) ELSE s

SeqToSet(s) == {s[i] : i \in 1..Len(s)}

\* -------------------------------------------------------------------- maps
\* A Go map is a function whose domain is the set of keys present.
EmptyMap == [k \in {} |-> NIL]
MapPut(m, k, v) == [x \in DOMAIN m \cup {k} |-> IF x = k THEN v ELSE m[x]]
MapGet(m, k, zero) == IF k \in DOMAIN m THEN m[k] ELSE zero

\* ----------------------------------------------------------------- symbols
Kinds == {"function", "class", "method", "property", "constant", "interface",
          "trait", "enum", "hook", "component"}

\* model.Symbol, with the fields the registry and the resolver read or write
NewSymbol(id, name, kind, lang, file) ==
    [ID |-> id, Name |-> name, Kind |-> kind, Language |-> lang, File |-> file,
     Extends |-> <<>>, Implements |-> <<>>, Members |-> <<>>, ParentID |-> <<>>,
     SeeAlso |-> <<>>, HookType |-> "", HookTag |-> <<>>, CallSites |-> <<>>,
     UsedBy |-> <<>>, Uses |-> <<>>, Overrides |-> <<>>]

qualifyPHP(namespace, name) ==
    IF namespace # <<>> THEN namespace \o Str_bslash \o name ELSE name

\* ---------------------------------------------------------------- registry
VARIABLES
    heap,      \* the Symbol objects allocated so far: heap[a] is the object at address a
    symbols,   \* Registry.symbols: ID -> address
    byKind,    \* Registry.byKind: kind -> sequence of addresses
    byFile,    \* Registry.byFile: file -> sequence of addresses
    \* ------------------------------------------------------------ the run
    workers,   \* Parser.workers (the -w flag)
    skipPHP, skipJS,      \* the --skip-php and --skip-js flags
    phpFiles, jsFiles,    \* what FindFiles returned
    fails,     \* the files whose read, language detection or parse fails
    mainpc,    \* where RunE is: "parse" (about to call ParseFiles), "wait" (in ParseFiles,
               \* at wg.Wait), "resolve" (ParseFiles calls over), "generate"
    phase,     \* which ParseFiles call RunE is at: "php" or "js"
    ch,        \* ParseFiles: the closed, buffered channel of file names left
    errCh,     \* ParseFiles: the number of errors buffered in errCh (cap = workers)
    nerrs,     \* ParseFiles: len(errs) of the last call that returned
    attempted, \* how many times parseFile was called on each file
    wpc,       \* per worker goroutine: "idle" (never started), "recv", "parse", "extract",
               \* "memLoad", "memStore", "hookLoad", "hookStore", "hookAdd", "senderr",
               \* "done" (the goroutine returned)
    wfile,     \* per worker: the file it took from ch
    wev,       \* per worker: the index of the next extraction event of wfile
    wtmp,      \* per worker: the pointer and the slice it loaded, between a Get and its write
    \* ------------------------------------------------------- the resolver
    rpass,     \* 0: ResolveAll not called; 1..4: the pass running; 5: ResolveAll returned
    rtodo,     \* the symbols of the pass's registry.All() not yet visited
    hooksByTag,\* resolveHookBindings: tag -> hook symbol
    stats,     \* Resolver.stats
    lookups,   \* the findSymbol calls of the last step: <<name, result>> pairs
    heap0,     \* the Symbol objects as they were when ResolveAll was called
    first,     \* when ResolveAll is run twice on one snapshot: what the first run left
               \* (<<heap, stats>>); <<>> before that
    \* ------------------------------- concurrent callers of the Registry
    mu,        \* Registry.mu (sync.RWMutex): the writer holding it (0: none), the readers
    cpc,       \* per caller: its position inside Add or inside a read method
    cop,       \* per caller: the method it is in and its argument
    ctmp,      \* per caller: the Symbol pointer passed to Add and the slice it loaded
    cdone,     \* per caller: the number of its calls that returned
    cres       \* per caller: what its last read method returned

regVars == <<heap, symbols, byKind, byFile>>
cfgVars == <<workers, skipPHP, skipJS, phpFiles, jsFiles, fails>>
poolVars == <<ch, errCh, nerrs, attempted, wpc, wfile, wev, wtmp>>
resVars == <<rpass, rtodo, hooksByTag, stats, lookups, heap0>>
callVars == <<mu, cpc, cop, ctmp, cdone, cres>>
vars == <<regVars, cfgVars, callVars, mainpc, phase, poolVars, resVars, first>>

\* Registry.Get
Get(id) == MapGet(symbols, id, NIL)

\* Registry.ByKind, Registry.ByFile
ByKind(k) == MapGet(byKind, k, <<>>)
ByFile(path) == MapGet(byFile, path, <<>>)

\* Registry.All: the addresses held by the primary index (in no order)
All == {symbols[id] : id \in DOMAIN symbols}

\* Registry.Count
Count == Cardinality(DOMAIN symbols)

\* (mutant) an ID the primary index holds keeps the symbol it has
AddTo_KeepFirst(reg, a, s) ==
    [symbols |-> IF s.ID \in DOMAIN reg.symbols THEN reg.symbols
                 ELSE MapPut(reg.symbols, s.ID, a),
     byKind  |-> MapPut(reg.byKind, s.Kind, MapGet(reg.byKind, s.Kind, <<>>) \o <<a>>),
     byFile  |-> MapPut(reg.byFile, s.File, MapGet(reg.byFile, s.File, <<>>) \o <<a>>)]

\* (mutant) the primary index is made anew on every Add
AddTo_Fresh(reg, a, s) ==
    [symbols |-> MapPut(EmptyMap, s.ID, a),
     byKind  |-> MapPut(reg.byKind, s.Kind, MapGet(reg.byKind, s.Kind, <<>>) \o <<a>>),
     byFile  |-> MapPut(reg.byFile, s.File, MapGet(reg.byFile, s.File, <<>>) \o <<a>>)]

\* (mutant) the symbol is not appended to the file index
AddTo_NoFile(reg, a, s) ==
    [symbols |-> MapPut(reg.symbols, s.ID, a),
     byKind  |-> MapPut(reg.byKind, s.Kind, MapGet(reg.byKind, s.Kind, <<>>) \o <<a>>),
     byFile  |-> reg.byFile]

\* Registry.Add on given index values: the three writes made under mu.Lock
AddTo(reg, a, s) ==
    [symbols |-> MapPut(reg.symbols, s.ID, a),
     byKind  |-> MapPut(reg.byKind, s.Kind, MapGet(reg.byKind, s.Kind, <<>>) \o <<a>>),
     byFile  |-> MapPut(reg.byFile, s.File, MapGet(reg.byFile, s.File, <<>>) \o <<a>>)]

\* p := &model.Symbol{...}; reg.Add(p): the object is allocated and inserted
Add(s) ==
    LET a == Len(heap) + 1
        r == AddTo([symbols |-> symbols, byKind |-> byKind, byFile |-> byFile], a, s)
    IN  /\ heap' = Append(heap, s)
        /\ symbols' = r.symbols
        /\ byKind' = r.byKind
        /\ byFile' = r.byFile

\* --------------------------------------------------------------- extractors
\* What a walk of one file does to the registry, in order: "add" (reg.Add of a new
\* symbol), "member" (handleMethod's append to the owner's Members), "hook"
\* (registerHook for one hook call).
Ev(op) == [op |-> op, sym |-> NewSymbol(<<>>, <<>>, "", "", 0), class |-> <<>>,
           method |-> <<>>, tag |-> <<>>, caller |-> <<>>, hookType |-> "", file |-> 0]

\* hookFunctions: the four function names scanForHooks looks for, as the HookType they
\* map to; a call of any other function (add_action, add_filter, ...) has none
isHook(call) == call.hookType \in {"action", "filter"}

\* scanForHooks: one registerHook per hook call found in the body
scanForHooks(calls, file, callerID) ==
    LET found == SelectSeq(calls, isHook)
    IN  [i \in 1..Len(found) |->
            [Ev("hook") EXCEPT !.tag = found[i].tag, !.hookType = found[i].hookType,
                               !.caller = callerID, !.file = file]]

\* ParseDocBlock, the @see lines: each reference is stored with its blanks trimmed
ParseDocBlock(see) == [i \in 1..Len(see) |-> TrimSpace(see[i])]

\* phpContext.handleFunction
phpHandleFunction(namespace, name, see, calls, file) ==
    LET fqn == qualifyPHP(namespace, name)
        sym == [NewSymbol(fqn, name, "function", "php", file)
                   EXCEPT !.SeeAlso = ParseDocBlock(see)]
    IN  <<[Ev("add") EXCEPT !.sym = sym]>> \o scanForHooks(calls, file, fqn)

\* phpContext.handleMethod: methods is a sequence of [name, calls]
phpHandleMethod(classFQN, m, file) ==
    LET methodID == classFQN \o Str_dcolon \o m.name
        sym == [NewSymbol(methodID, m.name, "method", "php", file)
                   EXCEPT !.ParentID = classFQN]
    IN  <<[Ev("add") EXCEPT !.sym = sym],
          [Ev("member") EXCEPT !.class = classFQN, !.method = methodID]>>
        \o scanForHooks(m.calls, file, methodID)

RECURSIVE phpProcessClassBody(_, _, _)
phpProcessClassBody(classFQN, methods, file) ==
    IF methods = <<>> THEN <<>>
    ELSE phpHandleMethod(classFQN, Head(methods), file)
         \o phpProcessClassBody(classFQN, Tail(methods), file)

\* phpContext.handleClass
phpHandleClass(namespace, name, extends, implements, see, methods, file) ==
    LET fqn == qualifyPHP(namespace, name)
        sym == [NewSymbol(fqn, name, "class", "php", file)
                   EXCEPT !.Extends = extends, !.Implements = implements,
                          !.SeeAlso = ParseDocBlock(see)]
    IN  <<[Ev("add") EXCEPT !.sym = sym]>> \o phpProcessClassBody(fqn, methods, file)

\* phpContext.handleInterface
phpHandleInterface(namespace, name, extends, methods, file) ==
    LET fqn == qualifyPHP(namespace, name)
        sym == [NewSymbol(fqn, name, "interface", "php", file) EXCEPT !.Extends = extends]
    IN  <<[Ev("add") EXCEPT !.sym = sym]>> \o phpProcessClassBody(fqn, methods, file)

\* jsContext.handleFunction
jsHandleFunction(name, file) ==
    <<[Ev("add") EXCEPT !.sym = NewSymbol(name, name, "function", "js", file)]>>

\* jsContext.handleMethod
jsHandleMethod(classFQN, m, file) ==
    LET methodID == classFQN \o Str_dot \o m.name
        sym == [NewSymbol(methodID, m.name, "method", "js", file)
                   EXCEPT !.ParentID = classFQN]
    IN  <<[Ev("add") EXCEPT !.sym = sym],
          [Ev("member") EXCEPT !.class = classFQN, !.method = methodID]>>

RECURSIVE jsProcessClassBody(_, _, _)
jsProcessClassBody(classFQN, methods, file) ==
    IF methods = <<>> THEN <<>>
    ELSE jsHandleMethod(classFQN, Head(methods), file)
         \o jsProcessClassBody(classFQN, Tail(methods), file)

\* jsContext.handleClass
jsHandleClass(name, extends, implements, methods, file) ==
    LET sym == [NewSymbol(name, name, "class", "js", file)
                   EXCEPT !.Extends = extends, !.Implements = implements]
    IN  <<[Ev("add") EXCEPT !.sym = sym]>> \o jsProcessClassBody(name, methods, file)

\* ------------------------------------------------------------- source tree
\* The files of the modelled source tree.  PHP files are 1..NumPHPFiles and cycle
\* through three shapes; JS files follow them.
\*   shape 1:  function f<i>() { do_action('i'); do_action($tag); }
\*   shape 2:  class C<i> extends B { function s() { apply_filters('i'); } }
\*   shape 0:  class B { function s() { do_action('i'); } }
\* ($tag: an argument extractHookTag returns "" for)
\*   JS:       class J { m() {} }
PHPFileIds == 1..NumPHPFiles
JSFileIds == (NumPHPFiles + 1)..(NumPHPFiles + NumJSFiles)
FileIds == PHPFileIds \cup JSFileIds

Call(tag, hookType) == [tag |-> tag, hookType |-> hookType]

\* the body of the function of a file f with f % 3 = 1:
\*   add_action('i', ...); do_action('i'); do_action($tag);
ListenerBody == <<Call(Str_init, ""), Call(Str_init, "action"), Call(<<>>, "action")>>

\* extractPHP / extractJS on file f
Program(f) ==
    IF f \in JSFileIds
    THEN jsHandleClass(<<"J">>, <<>>, <<>>, <<[name |-> <<"m">>]>>, f)
    ELSE CASE f % 3 = 1 ->
                phpHandleFunction(<<>>, <<"f", Chr(f)>>, <<>>, ListenerBody, f)
           [] f % 3 = 2 ->
                phpHandleClass(<<>>, <<"C", Chr(f)>>, <<<<"B">>>>, <<>>, <<>>,
                    <<[name |-> <<"s">>, calls |-> <<Call(Str_init, "filter")>>]>>, f)
           [] OTHER ->
                phpHandleClass(<<>>, <<"B">>, <<>>, <<>>, <<>>,
                    <<[name |-> <<"s">>, calls |-> <<Call(Str_init, "action")>>]>>, f)

\* ---------------------------------------------------------------- ingestion
Workers == 1..workers
NoTmp == [addr |-> NIL, val |-> <<>>]

CurEv(w) == Program(wfile[w])[wev[w]]

\* the walk moves on to its next event, or parseFile returns nil
Advance(w) ==
    IF wev[w] < Len(Program(wfile[w]))
    THEN /\ wev' = [wev EXCEPT ![w] = wev[w] + 1]
         /\ wpc' = [wpc EXCEPT ![w] = "extract"]
    ELSE /\ wev' = [wev EXCEPT ![w] = 0]
         /\ wpc' = [wpc EXCEPT ![w] = "recv"]

\* for file := range ch: take the next file, or leave the loop and run wg.Done
Recv(w) ==
    /\ mainpc = "wait" /\ wpc[w] = "recv"
    /\ IF ch # <<>>
       THEN /\ wfile' = [wfile EXCEPT ![w] = Head(ch)]
            /\ ch' = Tail(ch)
            /\ wpc' = [wpc EXCEPT ![w] = "parse"]
       ELSE /\ wpc' = [wpc EXCEPT ![w] = "done"]
            /\ wfile' = [wfile EXCEPT ![w] = 0]
            /\ UNCHANGED ch
    /\ UNCHANGED <<resVars, regVars, cfgVars, first, callVars, mainpc, phase, errCh, nerrs, attempted, wev, wtmp>>

\* parseFile up to the walk: ReadFile, detectLanguage, ParseCtx
parseFile(w) ==
    /\ wpc[w] = "parse"
    /\ attempted' = [attempted EXCEPT ![wfile[w]] = attempted[wfile[w]] + 1]
    /\ IF wfile[w] \in fails
       THEN wpc' = [wpc EXCEPT ![w] = "senderr"] /\ UNCHANGED wev
       ELSE IF Program(wfile[w]) = <<>>
            THEN wpc' = [wpc EXCEPT ![w] = "recv"] /\ UNCHANGED wev
            ELSE /\ wpc' = [wpc EXCEPT ![w] = "extract"]
                 /\ wev' = [wev EXCEPT ![w] = 1]
    /\ UNCHANGED <<resVars, regVars, cfgVars, first, callVars, mainpc, phase, ch, errCh, nerrs, wfile, wtmp>>

\* errCh <- fmt.Errorf(...): blocks while the buffer holds cap(errCh) = workers errors
SendErr(w) ==
    /\ wpc[w] = "senderr"
    /\ errCh < workers
    /\ errCh' = errCh + 1
    /\ wpc' = [wpc EXCEPT ![w] = "recv"]
    /\ UNCHANGED <<resVars, regVars, cfgVars, first, callVars, mainpc, phase, ch, nerrs, attempted, wfile, wev, wtmp>>

\* ctx.reg.Add(sym) in handleFunction, handleClass, handleMethod
ExtractAdd(w) ==
    /\ wpc[w] = "extract" /\ CurEv(w).op = "add"
    /\ Add(CurEv(w).sym)
    /\ Advance(w)
    /\ UNCHANGED <<resVars, cfgVars, first, callVars, mainpc, phase, ch, errCh, nerrs, attempted, wfile, wtmp>>

\* handleMethod: parent := ctx.reg.Get(classFQN)
MemberGet(w) ==
    /\ wpc[w] = "extract" /\ CurEv(w).op = "member"
    /\ LET parent == Get(CurEv(w).class)
       IN  IF parent # NIL
           THEN /\ wtmp' = [wtmp EXCEPT ![w] = [addr |-> parent, val |-> <<>>]]
                /\ wpc' = [wpc EXCEPT ![w] = "memLoad"]
                /\ UNCHANGED wev
           ELSE Advance(w) /\ UNCHANGED wtmp
    /\ UNCHANGED <<resVars, regVars, cfgVars, first, callVars, mainpc, phase, ch, errCh, nerrs, attempted, wfile>>

\* handleMethod: the read of parent.Members in append(parent.Members, methodID)
MemberLoad(w) ==
    /\ wpc[w] = "memLoad"
    /\ wtmp' = [wtmp EXCEPT ![w].val = heap[wtmp[w].addr].Members]
    /\ wpc' = [wpc EXCEPT ![w] = "memStore"]
    /\ UNCHANGED <<resVars, regVars, cfgVars, first, callVars, mainpc, phase, ch, errCh, nerrs, attempted, wfile, wev>>

\* handleMethod: the write parent.Members = ...
MemberStore(w) ==
    /\ wpc[w] = "memStore"
    /\ heap' = [heap EXCEPT ![wtmp[w].addr].Members = wtmp[w].val \o <<CurEv(w).method>>]
    /\ wtmp' = [wtmp EXCEPT ![w] = NoTmp]
    /\ Advance(w)
    /\ UNCHANGED <<resVars, symbols, byKind, byFile, cfgVars, first, callVars, mainpc, phase, ch, errCh, nerrs,
                   attempted, wfile>>

\* registerHook up to the branch: tag == "" returns; existing := reg.Get(hookID)
HookGet(w) ==
    /\ wpc[w] = "extract" /\ CurEv(w).op = "hook"
    /\ IF CurEv(w).tag = <<>>
       THEN Advance(w) /\ UNCHANGED wtmp
       ELSE LET existing == Get(Str_hook \o CurEv(w).tag)
            IN  /\ wtmp' = [wtmp EXCEPT ![w] = [addr |-> existing, val |-> <<>>]]
                /\ wpc' = [wpc EXCEPT ![w] = IF existing # NIL THEN "hookLoad" ELSE "hookAdd"]
                /\ UNCHANGED wev
    /\ UNCHANGED <<resVars, regVars, cfgVars, first, callVars, mainpc, phase, ch, errCh, nerrs, attempted, wfile>>

\* registerHook: the read of existing.CallSites in append(existing.CallSites, callerID)
HookLoad(w) ==
    /\ wpc[w] = "hookLoad"
    /\ wtmp' = [wtmp EXCEPT ![w].val = heap[wtmp[w].addr].CallSites]
    /\ wpc' = [wpc EXCEPT ![w] = "hookStore"]
    /\ UNCHANGED <<resVars, regVars, cfgVars, first, callVars, mainpc, phase, ch, errCh, nerrs, attempted, wfile, wev>>

\* registerHook: the write existing.CallSites = ...; return
HookStore(w) ==
    /\ wpc[w] = "hookStore"
    /\ heap' = [heap EXCEPT ![wtmp[w].addr].CallSites = wtmp[w].val \o <<CurEv(w).caller>>]
    /\ wtmp' = [wtmp EXCEPT ![w] = NoTmp]
    /\ Advance(w)
    /\ UNCHANGED <<resVars, symbols, byKind, byFile, cfgVars, first, callVars, mainpc, phase, ch, errCh, nerrs,
                   attempted, wfile>>

\* registerHook: the symbol built for a tag that Get did not find
HookSymbol(ev) ==
    [NewSymbol(Str_hook \o ev.tag, ev.tag, "hook", "php", ev.file)
        EXCEPT !.HookType = ev.hookType, !.HookTag = ev.tag, !.CallSites = <<ev.caller>>]

\* registerHook: existing == nil, so sym := &model.Symbol{...}; reg.Add(sym)
HookAdd(w) ==
    /\ wpc[w] = "hookAdd"
    /\ Add(HookSymbol(CurEv(w)))
    /\ wtmp' = [wtmp EXCEPT ![w] = NoTmp]
    /\ Advance(w)
    /\ UNCHANGED <<resVars, cfgVars, first, callVars, mainpc, phase, ch, errCh, nerrs, attempted, wfile>>

\* --------------------------------------------------------------------- RunE
FilesOf(ph) == IF ph = "php" THEN phpFiles ELSE jsFiles
Skipped(ph) == IF ph = "php" THEN skipPHP ELSE skipJS

\* RunE after a ParseFiles call (or a skipped one): on to the next step
AfterParse ==
    IF phase = "php"
    THEN phase' = "js" /\ mainpc' = "parse"
    ELSE phase' = phase /\ mainpc' = "resolve"

\* if !skipPHP { ... } / if !skipJS { ... } with the flag set
SkipParse ==
    /\ mainpc = "parse" /\ Skipped(phase)
    /\ AfterParse
    /\ UNCHANGED <<regVars, cfgVars, first, callVars, poolVars, resVars>>

\* ParseFiles: if len(files) == 0 { return nil }
ParseFilesEmpty ==
    /\ mainpc = "parse" /\ ~Skipped(phase) /\ Len(FilesOf(phase)) = 0
    /\ AfterParse
    /\ UNCHANGED <<regVars, cfgVars, first, callVars, poolVars, resVars>>

\* ParseFiles up to wg.Wait: the channel is filled and closed, the workers started
ParseFilesStart ==
    /\ mainpc = "parse" /\ ~Skipped(phase) /\ Len(FilesOf(phase)) > 0
    /\ ch' = FilesOf(phase)
    /\ errCh' = 0
    /\ wpc' = [w \in Workers |-> "recv"]
    /\ mainpc' = "wait"
    /\ UNCHANGED <<regVars, cfgVars, first, callVars, phase, nerrs, attempted, wfile, wev, wtmp, resVars>>

\* (mutant) wg.Wait() left out: ParseFiles goes on while workers are running
WaitReturns_NoWait == TRUE

\* the condition wg.Wait() waits for: every worker ran its deferred wg.Done
WaitReturns == \A w \in Workers : wpc[w] = "done"

\* ParseFiles from wg.Wait on: close(errCh), the errors collected, return nil
ParseFilesWait ==
    /\ mainpc = "wait"
    /\ WaitReturns
    /\ nerrs' = errCh
    /\ errCh' = 0
    /\ AfterParse
    /\ UNCHANGED <<regVars, cfgVars, first, callVars, ch, attempted, wpc, wfile, wev, wtmp, resVars>>

\* ----------------------------------------------------------------- resolver
ZeroStats == [Resolved |-> 0, Unresolved |-> 0, Inheritance |-> 0, HookBindings |-> 0]

\* (mutant) val is appended whether or not the slice holds it
appendUnique_Dup(slice, val) == Append(slice, val)

\* (mutant) the slice is started anew with val
appendUnique_Reset(slice, val) == <<val>>

\* appendUnique
appendUnique(slice, val) == IF val \in SeqToSet(slice) THEN slice ELSE Append(slice, val)

\* (mutant) name[idx:] for name[idx+1:]: the separator stays in the short name
shortNameOf_KeepSep(name) ==
    LET idx == LastIndexAny(name, SepChars)
    IN  IF idx >= 1 THEN SubSeq(name, idx, Len(name)) ELSE name

\* findSymbol: the short name, name[idx+1:] after the last of \ / :
shortNameOf(name) ==
    LET idx == LastIndexAny(name, SepChars)
    IN  IF idx >= 1 THEN SubSeq(name, idx + 1, Len(name)) ELSE name

\* (mutant) a candidate for C::m has to be owned by C
candidatesOf_SameOwner(name) ==
    LET idx == LastIndexAny(name, SepChars)
    IN  {a \in All : /\ heap[a].Name = shortNameOf(name)
                     /\ (idx >= 3 /\ name[idx] = ":" /\ name[idx - 1] = ":")
                            => heap[a].ParentID = SubSeq(name, 1, idx - 2)}

\* findSymbol: the symbols of registry.All() whose Name is the short name
candidatesOf(name) == {a \in All : heap[a].Name = shortNameOf(name)}

\* (mutant) only classes, interfaces and traits are candidates
pickCandidate_TypeLike(name) ==
    LET typed == {a \in candidatesOf(name) : heap[a].Kind \in {"class", "interface", "trait"}}
    IN  IF Cardinality(typed) = 1 THEN CHOOSE a \in typed : TRUE ELSE NIL

\* (mutant) the first candidate is taken when there are several
pickCandidate_First(name) ==
    IF candidatesOf(name) # {}
    THEN CHOOSE a \in candidatesOf(name) : \A b \in candidatesOf(name) : a <= b
    ELSE NIL

\* findSymbol: what is returned once both direct lookups missed
pickCandidate(name) ==
    IF Cardinality(candidatesOf(name)) = 1
    THEN CHOOSE a \in candidatesOf(name) : TRUE
    ELSE NIL

\* Resolver.findSymbol
findSymbol(name) ==
    IF Get(name) # NIL THEN Get(name)
    ELSE IF Get(ReplaceAll(name, "/", "\\")) # NIL THEN Get(ReplaceAll(name, "/", "\\"))
    ELSE pickCandidate(name)

\* (mutant) the names that findSymbol does not find are dropped from the list
RECURSIVE resolveNames_Drop(_)
resolveNames_Drop(list) ==
    IF list = <<>> THEN <<>>
    ELSE (IF findSymbol(Head(list)) # NIL
          THEN <<heap[findSymbol(Head(list))].ID>>
          ELSE <<>>) \o resolveNames_Drop(Tail(list))

\* resolveInheritance: one of the two loops, over sym.Extends or sym.Implements
resolveNames(list) ==
    [i \in 1..Len(list) |->
        IF findSymbol(list[i]) # NIL THEN heap[findSymbol(list[i])].ID ELSE list[i]]

\* (mutant) only the entries whose text changes are counted
countResolved_Changed(list) ==
    Cardinality({i \in 1..Len(list) :
                    findSymbol(list[i]) # NIL /\ heap[findSymbol(list[i])].ID # list[i]})

countResolved(list) == Cardinality({i \in 1..Len(list) : findSymbol(list[i]) # NIL})

lookupsOf(list) == [i \in 1..Len(list) |-> <<list[i], findSymbol(list[i])>>]

\* (mutant) the trailing () is not stripped
cleanRef_NoStrip(entry) == TrimSpace(entry)

\* (mutant) TrimSuffix is applied before TrimSpace
cleanRef_StripFirst(entry) == TrimSpace(TrimSuffix(entry, Str_parens))

\* resolveSeeReferences: the name looked up for one entry (TrimSpace, then TrimSuffix)
cleanRef(entry) == TrimSuffix(TrimSpace(entry), Str_parens)

\* resolveSeeReferences: the entries that are looked up (not empty once trimmed)
seeIndices(list) == {i \in 1..Len(list) : TrimSpace(list[i]) # <<>>}

\* (mutant) an entry that is not found is stored back as the cleaned name
resolveSee_StoreClean(list) ==
    [i \in 1..Len(list) |->
        IF i \in seeIndices(list) /\ findSymbol(cleanRef(list[i])) # NIL
        THEN heap[findSymbol(cleanRef(list[i]))].ID
        ELSE cleanRef(list[i])]

\* resolveSeeReferences: the SeeAlso list the loop leaves
resolveSee(list) ==
    [i \in 1..Len(list) |->
        IF i \in seeIndices(list) /\ findSymbol(cleanRef(list[i])) # NIL
        THEN heap[findSymbol(cleanRef(list[i]))].ID
        ELSE list[i]]

countSeeResolved(list) ==
    Cardinality({i \in seeIndices(list) : findSymbol(cleanRef(list[i])) # NIL})

RECURSIVE seeLookups(_)
seeLookups(list) ==
    IF list = <<>> THEN <<>>
    ELSE (IF TrimSpace(Head(list)) # <<>>
          THEN <<<<cleanRef(Head(list)), findSymbol(cleanRef(Head(list)))>>>>
          ELSE <<>>) \o seeLookups(Tail(list))

\* resolveHookBindings: hooksByTag built from registry.ByKind(KindHook), in list order
RECURSIVE buildHooksByTag(_, _)
buildHooksByTag(m, hooks) ==
    IF hooks = <<>> THEN m
    ELSE buildHooksByTag(MapPut(m, heap[Head(hooks)].HookTag, Head(hooks)), Tail(hooks))

\* (mutant) the hook tag is appended to hook.UsedBy in place of sym.ID
RECURSIVE bindUses_Tag(_, _, _)
bindUses_Tag(h, uses, id) ==
    IF uses = <<>> THEN h
    ELSE IF Head(uses) \in DOMAIN hooksByTag
         THEN bindUses_Tag([h EXCEPT ![hooksByTag[Head(uses)]].UsedBy =
                               appendUnique(h[hooksByTag[Head(uses)]].UsedBy, Head(uses))],
                           Tail(uses), id)
         ELSE bindUses_Tag(h, Tail(uses), id)

\* resolveHookBindings: the inner loop over sym.Uses, on heap value h
RECURSIVE bindUses(_, _, _)
bindUses(h, uses, id) ==
    IF uses = <<>> THEN h
    ELSE IF Head(uses) \in DOMAIN hooksByTag
         THEN bindUses([h EXCEPT ![hooksByTag[Head(uses)]].UsedBy =
                           appendUnique(h[hooksByTag[Head(uses)]].UsedBy, id)],
                       Tail(uses), id)
         ELSE bindUses(h, Tail(uses), id)

countBound(uses) == Cardinality({i \in 1..Len(uses) : uses[i] \in DOMAIN hooksByTag})

\* (mutant) the test extSym == nil is not made: only the method ID is looked up
overrideIndex_NoOwnerCheck(extends, name) ==
    LET hits == {i \in 1..Len(extends) : Get(extends[i] \o Str_dcolon \o name) # NIL}
    IN  IF hits = {} THEN 0 ELSE CHOOSE i \in hits : \A j \in hits : i <= j

\* (mutant) the last such entry of parent.Extends
overrideIndex_Last(extends, name) ==
    LET hits == {i \in 1..Len(extends) :
                    /\ Get(extends[i]) # NIL
                    /\ Get(extends[i] \o Str_dcolon \o name) # NIL}
    IN  IF hits = {} THEN 0 ELSE CHOOSE i \in hits : \A j \in hits : i >= j

\* resolveMethodOverrides: the first entry of parent.Extends that is a symbol and owns a
\* method of this name, as an index into the list; 0 when there is none
overrideIndex(extends, name) ==
    LET hits == {i \in 1..Len(extends) :
                    /\ Get(extends[i]) # NIL
                    /\ Get(extends[i] \o Str_dcolon \o name) # NIL}
    IN  IF hits = {} THEN 0 ELSE CHOOSE i \in hits : \A j \in hits : i <= j

\* (mutant) when no entry of parent.Extends owns the method, the Extends lists of
\* those entries are searched as well
overriddenMethod_Chain(extends, name) ==
    LET k == overrideIndex(extends, name)
        up == {<<i, j>> \in (1..Len(extends)) \X (1..2) :
                  /\ Get(extends[i]) # NIL
                  /\ j <= Len(heap[Get(extends[i])].Extends)
                  /\ overrideIndex(<<heap[Get(extends[i])].Extends[j]>>, name) = 1}
    IN  IF k # 0 THEN Get(extends[k] \o Str_dcolon \o name)
        ELSE IF up = {} THEN NIL
        ELSE LET e == CHOOSE x \in up : TRUE
             IN  Get(heap[Get(extends[e[1]])].Extends[e[2]] \o Str_dcolon \o name)

\* resolveMethodOverrides: the parentMethod the loop over parent.Extends breaks on, NIL
\* when the loop ends without one
overriddenMethod(extends, name) ==
    IF overrideIndex(extends, name) = 0 THEN NIL
    ELSE Get(extends[overrideIndex(extends, name)] \o Str_dcolon \o name)

\* res := resolver.New(registry); res.ResolveAll() up to the first registry.All()
ResolveAllStart ==
    /\ mainpc = "resolve" /\ rpass = 0
    /\ rpass' = 1
    /\ rtodo' = All
    /\ stats' = ZeroStats
    /\ heap0' = heap
    /\ lookups' = <<>>
    /\ UNCHANGED <<regVars, cfgVars, first, callVars, mainpc, phase, poolVars, hooksByTag>>

\* resolveInheritance: the loop body for one symbol of registry.All()
resolveInheritance(a) ==
    /\ rpass = 1 /\ a \in rtodo
    /\ rtodo' = rtodo \ {a}
    /\ IF heap[a].Kind \notin {"class", "interface"}
       THEN UNCHANGED <<heap, stats>> /\ lookups' = <<>>
       ELSE /\ heap' = [heap EXCEPT ![a].Extends = resolveNames(heap[a].Extends),
                                    ![a].Implements = resolveNames(heap[a].Implements)]
            /\ stats' = [stats EXCEPT
                  !.Inheritance = @ + countResolved(heap[a].Extends)
                                    + countResolved(heap[a].Implements),
                  !.Resolved = @ + countResolved(heap[a].Extends)
                                 + countResolved(heap[a].Implements)]
            /\ lookups' = lookupsOf(heap[a].Extends) \o lookupsOf(heap[a].Implements)
    /\ UNCHANGED <<symbols, byKind, byFile, cfgVars, first, callVars, mainpc, phase, poolVars, hooksByTag,
                   heap0, rpass>>

\* (mutant) resolveHookBindings begins while resolveInheritance has symbols left
resolveHookBindingsStart_Early ==
    /\ rpass = 1
    /\ rpass' = 2
    /\ hooksByTag' = buildHooksByTag(EmptyMap, ByKind("hook"))
    /\ rtodo' = All
    /\ lookups' = <<>>
    /\ UNCHANGED <<regVars, cfgVars, first, callVars, mainpc, phase, poolVars, stats, heap0>>

\* resolveInheritance returns; resolveHookBindings up to its registry.All()
resolveHookBindingsStart ==
    /\ rpass = 1 /\ rtodo = {}
    /\ rpass' = 2
    /\ hooksByTag' = buildHooksByTag(EmptyMap, ByKind("hook"))
    /\ rtodo' = All
    /\ lookups' = <<>>
    /\ UNCHANGED <<regVars, cfgVars, first, callVars, mainpc, phase, poolVars, stats, heap0>>

\* resolveHookBindings: the loop body for one symbol
resolveHookBindings(a) ==
    /\ rpass = 2 /\ a \in rtodo
    /\ rtodo' = rtodo \ {a}
    /\ IF heap[a].Kind \notin {"function", "method"}
       THEN UNCHANGED <<heap, stats>>
       ELSE /\ heap' = bindUses(heap, heap[a].Uses, heap[a].ID)
            /\ stats' = [stats EXCEPT !.HookBindings = @ + countBound(heap[a].Uses),
                                      !.Resolved = @ + countBound(heap[a].Uses)]
    /\ lookups' = <<>>
    /\ UNCHANGED <<symbols, byKind, byFile, cfgVars, first, callVars, mainpc, phase, poolVars, hooksByTag,
                   heap0, rpass>>

\* resolveHookBindings returns; resolveSeeReferences up to its registry.All()
resolveSeeReferencesStart ==
    /\ rpass = 2 /\ rtodo = {}
    /\ rpass' = 3
    /\ rtodo' = All
    /\ lookups' = <<>>
    /\ UNCHANGED <<regVars, cfgVars, first, callVars, mainpc, phase, poolVars, hooksByTag, stats, heap0>>

\* resolveSeeReferences: the loop body for one symbol
resolveSeeReferences(a) ==
    /\ rpass = 3 /\ a \in rtodo
    /\ rtodo' = rtodo \ {a}
    /\ heap' = [heap EXCEPT ![a].SeeAlso = resolveSee(heap[a].SeeAlso)]
    /\ stats' = [stats EXCEPT
          !.Resolved = @ + countSeeResolved(heap[a].SeeAlso),
          !.Unresolved = @ + Cardinality(seeIndices(heap[a].SeeAlso))
                           - countSeeResolved(heap[a].SeeAlso)]
    /\ lookups' = seeLookups(heap[a].SeeAlso)
    /\ UNCHANGED <<symbols, byKind, byFile, cfgVars, first, callVars, mainpc, phase, poolVars, hooksByTag,
                   heap0, rpass>>

\* resolveSeeReferences returns; resolveMethodOverrides up to its registry.All()
resolveMethodOverridesStart ==
    /\ rpass = 3 /\ rtodo = {}
    /\ rpass' = 4
    /\ rtodo' = All
    /\ lookups' = <<>>
    /\ UNCHANGED <<regVars, cfgVars, first, callVars, mainpc, phase, poolVars, hooksByTag, stats, heap0>>

\* resolveMethodOverrides: the loop body for one symbol
resolveMethodOverrides(a) ==
    /\ rpass = 4 /\ a \in rtodo
    /\ rtodo' = rtodo \ {a}
    /\ lookups' = <<>>
    /\ LET sym == heap[a]
           parent == Get(sym.ParentID)
           pm == IF parent = NIL THEN NIL
                 ELSE overriddenMethod(heap[parent].Extends, sym.Name)
       IN  IF sym.Kind # "method" \/ sym.ParentID = <<>> \/ parent = NIL \/ pm = NIL
           THEN UNCHANGED <<heap, stats>>
           ELSE LET h1 == [heap EXCEPT ![a].Overrides = heap[pm].ID]
                IN  /\ heap' = [h1 EXCEPT ![pm].UsedBy = appendUnique(h1[pm].UsedBy, sym.ID)]
                    /\ stats' = [stats EXCEPT !.Resolved = @ + 1]
    /\ UNCHANGED <<symbols, byKind, byFile, cfgVars, first, callVars, mainpc, phase, poolVars, hooksByTag,
                   heap0, rpass>>

\* resolveMethodOverrides and ResolveAll return; RunE goes on to generate the site
ResolveAllEnd ==
    /\ rpass = 4 /\ rtodo = {}
    /\ rpass' = 5
    /\ mainpc' = "generate"
    /\ lookups' = <<>>
    /\ UNCHANGED <<regVars, cfgVars, first, callVars, phase, poolVars, rtodo, hooksByTag, stats, heap0>>

\* --------------------------------------- the Registry under concurrent callers
\* Registry.Add and the read methods, statement by statement, with the RWMutex they
\* take.  Callers 1..NumAdders call Add on symbols with pairwise distinct IDs; the
\* others call the read methods.
Adders == 1..NumAdders
Readers == (NumAdders + 1)..(NumAdders + NumReaders)
Callers == Adders \cup Readers

\* the j-th symbol caller c adds: all functions, file j (so callers share lists)
AdderSymbol(c, j) ==
    NewSymbol(<<"a", Chr(c), Chr(j)>>, <<"a", Chr(j)>>, "function", "php", j)

ReadOps ==
    {[m |-> "Get", arg |-> AdderSymbol(c, j).ID] : c \in Adders, j \in 1..AddsPerCaller}
    \cup {[m |-> "ByKind", arg |-> "function"], [m |-> "All", arg |-> ""],
          [m |-> "Count", arg |-> ""]}
    \cup {[m |-> "ByFile", arg |-> j] : j \in 1..AddsPerCaller}
NoOp == [m |-> "", arg |-> ""]

\* (mutant) Add without r.mu.Lock()
CanLock_NoMutex == TRUE

\* r.mu.Lock() can be taken: no writer and no reader holds the mutex
CanLock == mu.writer = 0 /\ mu.readers = {}

\* (mutant) a read method without r.mu.RLock()
CanRLock_NoMutex == TRUE

\* r.mu.RLock() can be taken: no writer holds the mutex
CanRLock == mu.writer = 0

\* s := &model.Symbol{...}; r.Add(s) up to r.mu.Lock()
AddLock(c) ==
    /\ c \in Adders /\ cpc[c] = "idle" /\ cdone[c] < AddsPerCaller
    /\ CanLock
    /\ mu' = [mu EXCEPT !.writer = c]
    /\ heap' = Append(heap, AdderSymbol(c, cdone[c] + 1))
    /\ ctmp' = [ctmp EXCEPT ![c] = [addr |-> Len(heap) + 1, val |-> <<>>]]
    /\ cpc' = [cpc EXCEPT ![c] = "symbols"]
    /\ UNCHANGED <<symbols, byKind, byFile, cfgVars, first, mainpc, phase, poolVars, resVars,
                   cop, cdone, cres>>

\* r.symbols[s.ID] = s
AddSymbols(c) ==
    /\ cpc[c] = "symbols"
    /\ symbols' = MapPut(symbols, heap[ctmp[c].addr].ID, ctmp[c].addr)
    /\ cpc' = [cpc EXCEPT ![c] = "kindLoad"]
    /\ UNCHANGED <<heap, byKind, byFile, cfgVars, first, mainpc, phase, poolVars, resVars,
                   mu, cop, ctmp, cdone, cres>>

\* the read of r.byKind[s.Kind] in append(r.byKind[s.Kind], s)
AddKindLoad(c) ==
    /\ cpc[c] = "kindLoad"
    /\ ctmp' = [ctmp EXCEPT ![c].val = ByKind(heap[ctmp[c].addr].Kind)]
    /\ cpc' = [cpc EXCEPT ![c] = "kindStore"]
    /\ UNCHANGED <<regVars, cfgVars, first, mainpc, phase, poolVars, resVars, mu, cop, cdone, cres>>

\* r.byKind[s.Kind] = ...
AddKindStore(c) ==
    /\ cpc[c] = "kindStore"
    /\ byKind' = MapPut(byKind, heap[ctmp[c].addr].Kind, ctmp[c].val \o <<ctmp[c].addr>>)
    /\ cpc' = [cpc EXCEPT ![c] = "fileLoad"]
    /\ UNCHANGED <<heap, symbols, byFile, cfgVars, first, mainpc, phase, poolVars, resVars,
                   mu, cop, ctmp, cdone, cres>>

\* the read of r.byFile[s.Location.File] in append(r.byFile[...], s)
AddFileLoad(c) ==
    /\ cpc[c] = "fileLoad"
    /\ ctmp' = [ctmp EXCEPT ![c].val = ByFile(heap[ctmp[c].addr].File)]
    /\ cpc' = [cpc EXCEPT ![c] = "fileStore"]
    /\ UNCHANGED <<regVars, cfgVars, first, mainpc, phase, poolVars, resVars, mu, cop, cdone, cres>>

\* r.byFile[s.Location.File] = ...
AddFileStore(c) ==
    /\ cpc[c] = "fileStore"
    /\ byFile' = MapPut(byFile, heap[ctmp[c].addr].File, ctmp[c].val \o <<ctmp[c].addr>>)
    /\ cpc' = [cpc EXCEPT ![c] = "unlock"]
    /\ UNCHANGED <<heap, symbols, byKind, cfgVars, first, mainpc, phase, poolVars, resVars,
                   mu, cop, ctmp, cdone, cres>>

\* the deferred r.mu.Unlock(); Add returns
AddUnlock(c) ==
    /\ cpc[c] = "unlock"
    /\ mu' = [mu EXCEPT !.writer = IF mu.writer = c THEN 0 ELSE mu.writer]
    /\ cpc' = [cpc EXCEPT ![c] = "idle"]
    /\ cdone' = [cdone EXCEPT ![c] = cdone[c] + 1]
    /\ ctmp' = [ctmp EXCEPT ![c] = NoTmp]
    /\ UNCHANGED <<regVars, cfgVars, first, mainpc, phase, poolVars, resVars, cop, cres>>

\* Get, ByKind, ByFile, All, Count up to r.mu.RLock()
ReadLock(c, op) ==
    /\ c \in Readers /\ cpc[c] = "idle" /\ cdone[c] < MaxReads
    /\ CanRLock
    /\ mu' = [mu EXCEPT !.readers = mu.readers \cup {c}]
    /\ cop' = [cop EXCEPT ![c] = op]
    /\ cpc' = [cpc EXCEPT ![c] = "read"]
    /\ UNCHANGED <<regVars, cfgVars, first, mainpc, phase, poolVars, resVars, ctmp, cdone, cres>>

\* the body of Get, ByKind, ByFile, Count: what the method returns
ReadResult(op) ==
    CASE op.m = "Get" -> Get(op.arg)
      [] op.m = "ByKind" -> ByKind(op.arg)
      [] op.m = "ByFile" -> ByFile(op.arg)
      [] OTHER -> Count

ReadBody(c) ==
    /\ cpc[c] = "read" /\ cop[c].m # "All"
    /\ cres' = [cres EXCEPT ![c] = ReadResult(cop[c])]
    /\ cpc' = [cpc EXCEPT ![c] = "runlock"]
    /\ UNCHANGED <<regVars, cfgVars, first, mainpc, phase, poolVars, resVars, mu, cop, ctmp, cdone>>

\* the IDs the range loop of All has visited: those of the pointers in result
AllVisited(c) == {heap[ctmp[c].val[i]].ID : i \in 1..Len(ctmp[c].val)}

\* All: one iteration of  for _, s := range r.symbols { result = append(result, s) },
\* the map entries coming in any order
AllRange(c) ==
    /\ cpc[c] = "read" /\ cop[c].m = "All"
    /\ \E id \in DOMAIN symbols \ AllVisited(c) :
          ctmp' = [ctmp EXCEPT ![c].val = ctmp[c].val \o <<symbols[id]>>]
    /\ UNCHANGED <<regVars, cfgVars, first, mainpc, phase, poolVars, resVars, mu, cop, cpc,
                   cdone, cres>>

\* All: the range loop is over; return result
AllReturn(c) ==
    /\ cpc[c] = "read" /\ cop[c].m = "All"
    /\ DOMAIN symbols \ AllVisited(c) = {}
    /\ cres' = [cres EXCEPT ![c] = ctmp[c].val]
    /\ ctmp' = [ctmp EXCEPT ![c] = NoTmp]
    /\ cpc' = [cpc EXCEPT ![c] = "runlock"]
    /\ UNCHANGED <<regVars, cfgVars, first, mainpc, phase, poolVars, resVars, mu, cop, cdone>>

\* the deferred r.mu.RUnlock(); the method returns
ReadUnlock(c) ==
    /\ cpc[c] = "runlock"
    /\ mu' = [mu EXCEPT !.readers = mu.readers \ {c}]
    /\ cpc' = [cpc EXCEPT ![c] = "idle"]
    /\ cdone' = [cdone EXCEPT ![c] = cdone[c] + 1]
    /\ UNCHANGED <<regVars, cfgVars, first, mainpc, phase, poolVars, resVars, cop, ctmp, cres>>

\* ------------------------------------------------- registries for the resolver
\* What one worker alone does with an extraction event, as a function of the registry
\* value st = [heap, symbols, byKind, byFile].
EmptyReg == [heap |-> <<>>, symbols |-> EmptyMap, byKind |-> EmptyMap, byFile |-> EmptyMap]

ingestAdd(st, sym) ==
    LET a == Len(st.heap) + 1
        r == AddTo(st, a, sym)
    IN  [heap |-> Append(st.heap, sym), symbols |-> r.symbols, byKind |-> r.byKind,
         byFile |-> r.byFile]

ingestEvent(st, ev) ==
    CASE ev.op = "add" -> ingestAdd(st, ev.sym)
      [] ev.op = "member" ->
            LET parent == MapGet(st.symbols, ev.class, NIL)
            IN  IF parent = NIL THEN st
                ELSE [st EXCEPT !.heap[parent].Members = Append(@, ev.method)]
      [] OTHER ->
            LET existing == MapGet(st.symbols, Str_hook \o ev.tag, NIL)
            IN  IF ev.tag = <<>> THEN st
                ELSE IF existing # NIL
                     THEN [st EXCEPT !.heap[existing].CallSites = Append(@, ev.caller)]
                     ELSE ingestAdd(st, HookSymbol(ev))

RECURSIVE ingestAll(_, _)
ingestAll(st, events) ==
    IF events = <<>> THEN st ELSE ingestAll(ingestEvent(st, Head(events)), Tail(events))

\* The source units the resolver's registries are extracted from.  Unit 1 holds the
\* references; the others are the symbols they may name.
\*   1: /** @see <see> */ class C extends <ext> implements <impl> { function s() {} }
\*   2: function f() {}
\*   3: namespace n; function f() {}
\*   4: namespace m; function f() {}
\*   5: class B { function s() {} }
\*   6: namespace n; class B {}
\*   7: interface I {}
OtherUnits == {2, 3, 4, 5, 6, 7}
ExtRefs == {<<"B">>, <<"n", "/", "B">>, <<"n", "\\", "B">>, <<"x", "\\", "B">>, <<"f">>}
ImplRefs == {<<"I">>, <<"x", "/", "I">>}
SeeRefs == {<<"f", "(", ")">>, <<" ", "f", "(", ")", " ">>, <<"f">>, <<"n", "/", "f">>,
            <<"x", "\\", "f">>, <<"B", ":", ":", "s">>, <<"X", ":", ":", "s", "(", ")">>,
            <<" ">>, <<>>, <<"z">>}

UnitProgram(u, ext, impl, see) ==
    CASE u = 1 -> phpHandleClass(<<>>, <<"C">>, <<ext>>, <<impl>>, <<see>>,
                                 <<[name |-> <<"s">>, calls |-> <<>>]>>, u)
      [] u = 2 -> phpHandleFunction(<<>>, <<"f">>, <<>>, <<>>, u)
      [] u = 3 -> phpHandleFunction(<<"n">>, <<"f">>, <<>>, <<>>, u)
      [] u = 4 -> phpHandleFunction(<<"m">>, <<"f">>, <<>>, <<>>, u)
      [] u = 5 -> phpHandleClass(<<>>, <<"B">>, <<>>, <<>>, <<>>,
                                 <<[name |-> <<"s">>, calls |-> <<>>]>>, u)
      [] u = 6 -> phpHandleClass(<<"n">>, <<"B">>, <<>>, <<>>, <<>>, <<>>, u)
      [] OTHER -> phpHandleInterface(<<>>, <<"I">>, <<>>, <<>>, u)

RECURSIVE UnitsProgram(_, _, _, _)
UnitsProgram(us, ext, impl, see) ==
    IF us = {} THEN <<>>
    ELSE LET u == Max(us)
         IN  UnitsProgram(us \ {u}, ext, impl, see) \o UnitProgram(u, ext, impl, see)

\* ------------------------------------------------------------ specification
\* A run of the command: the flags and the source tree are the inputs.
Init ==
    /\ heap = <<>> /\ symbols = EmptyMap /\ byKind = EmptyMap /\ byFile = EmptyMap
    /\ workers \in 0..MaxWorkers
    /\ skipPHP \in BOOLEAN /\ skipJS \in BOOLEAN
    /\ phpFiles = [i \in 1..NumPHPFiles |-> i]
    /\ \E n \in 0..NumJSFiles : jsFiles = [i \in 1..n |-> NumPHPFiles + i]
    /\ fails \in SUBSET FileIds
    /\ mainpc = "parse" /\ phase = "php"
    /\ ch = <<>> /\ errCh = 0 /\ nerrs = 0
    /\ attempted = [f \in FileIds |-> 0]
    /\ wpc = [w \in Workers |-> "idle"]
    /\ wfile = [w \in Workers |-> 0]
    /\ wev = [w \in Workers |-> 0]
    /\ wtmp = [w \in Workers |-> NoTmp]
    /\ rpass = 0 /\ rtodo = {} /\ hooksByTag = EmptyMap /\ stats = ZeroStats
    /\ lookups = <<>> /\ heap0 = <<>> /\ first = <<>>
    /\ mu = [writer |-> 0, readers |-> {}]
    /\ cpc = <<>> /\ cop = <<>> /\ ctmp = <<>> /\ cdone = <<>> /\ cres = <<>>

NextIngest ==
    \/ SkipParse
    \/ ParseFilesEmpty
    \/ ParseFilesStart
    \/ ParseFilesWait
    \/ \E w \in Workers : Recv(w)
    \/ \E w \in Workers : parseFile(w)
    \/ \E w \in Workers : SendErr(w)
    \/ \E w \in Workers : ExtractAdd(w)
    \/ \E w \in Workers : MemberGet(w)
    \/ \E w \in Workers : MemberLoad(w)
    \/ \E w \in Workers : MemberStore(w)
    \/ \E w \in Workers : HookGet(w)
    \/ \E w \in Workers : HookLoad(w)
    \/ \E w \in Workers : HookStore(w)
    \/ \E w \in Workers : HookAdd(w)

NextResolve ==
    \/ ResolveAllStart
    \/ \E a \in rtodo : resolveInheritance(a)
    \/ resolveHookBindingsStart
    \/ \E a \in rtodo : resolveHookBindings(a)
    \/ resolveSeeReferencesStart
    \/ \E a \in rtodo : resolveSeeReferences(a)
    \/ resolveMethodOverridesStart
    \/ \E a \in rtodo : resolveMethodOverrides(a)
    \/ ResolveAllEnd

Next == NextIngest \/ NextResolve

Spec == Init /\ [][Next]_vars

SpecIngest == Init /\ [][NextIngest \/ ResolveAllStart]_vars

\* The Registry alone, freshly made by NewRegistry, under concurrent callers.
InitRegistry ==
    /\ heap = <<>> /\ symbols = EmptyMap /\ byKind = EmptyMap /\ byFile = EmptyMap
    /\ workers = 0 /\ skipPHP = FALSE /\ skipJS = FALSE
    /\ phpFiles = <<>> /\ jsFiles = <<>> /\ fails = {}
    /\ mainpc = "callers" /\ phase = ""
    /\ ch = <<>> /\ errCh = 0 /\ nerrs = 0
    /\ attempted = [f \in FileIds |-> 0]
    /\ wpc = <<>> /\ wfile = <<>> /\ wev = <<>> /\ wtmp = <<>>
    /\ rpass = 0 /\ rtodo = {} /\ hooksByTag = EmptyMap /\ stats = ZeroStats
    /\ lookups = <<>> /\ heap0 = <<>> /\ first = <<>>
    /\ mu = [writer |-> 0, readers |-> {}]
    /\ cpc = [c \in Callers |-> "idle"]
    /\ cop = [c \in Callers |-> NoOp]
    /\ ctmp = [c \in Callers |-> NoTmp]
    /\ cdone = [c \in Callers |-> 0]
    /\ cres = [c \in Callers |-> NIL]

NextRegistry ==
    \/ \E c \in Callers : AddLock(c)
    \/ \E c \in Callers : AddSymbols(c)
    \/ \E c \in Callers : AddKindLoad(c)
    \/ \E c \in Callers : AddKindStore(c)
    \/ \E c \in Callers : AddFileLoad(c)
    \/ \E c \in Callers : AddFileStore(c)
    \/ \E c \in Callers : AddUnlock(c)
    \/ \E c \in Callers : \E op \in ReadOps : ReadLock(c, op)
    \/ \E c \in Callers : ReadBody(c)
    \/ \E c \in Callers : AllRange(c)
    \/ \E c \in Callers : AllReturn(c)
    \/ \E c \in Callers : ReadUnlock(c)

SpecRegistry == InitRegistry /\ [][NextRegistry]_vars

\* The resolver alone, on the registry extracted from unit 1 and up to MaxUnits others.
InitResolve ==
    /\ \E us \in SUBSET OtherUnits : \E ext \in ExtRefs : \E impl \in ImplRefs :
       \E see \in SeeRefs :
          /\ Cardinality(us) <= MaxUnits
          /\ LET st == ingestAll(EmptyReg, UnitsProgram(us \cup {1}, ext, impl, see))
             IN  /\ heap = st.heap /\ symbols = st.symbols
                 /\ byKind = st.byKind /\ byFile = st.byFile
    /\ workers = 1 /\ skipPHP = FALSE /\ skipJS = FALSE
    /\ phpFiles = <<>> /\ jsFiles = <<>> /\ fails = {}
    /\ mainpc = "resolve" /\ phase = "js"
    /\ ch = <<>> /\ errCh = 0 /\ nerrs = 0
    /\ attempted = [f \in FileIds |-> 0]
    /\ wpc = [w \in Workers |-> "done"]
    /\ wfile = [w \in Workers |-> 0]
    /\ wev = [w \in Workers |-> 0]
    /\ wtmp = [w \in Workers |-> NoTmp]
    /\ rpass = 0 /\ rtodo = {} /\ hooksByTag = EmptyMap /\ stats = ZeroStats
    /\ lookups = <<>> /\ heap0 = <<>> /\ first = <<>>
    /\ mu = [writer |-> 0, readers |-> {}]
    /\ cpc = <<>> /\ cop = <<>> /\ ctmp = <<>> /\ cdone = <<>> /\ cres = <<>>

SpecResolve == InitResolve /\ [][NextResolve]_vars

\* The state in which RunE calls ResolveAll on the registry value st.
ResolveFrom(st) ==
    /\ heap = st.heap /\ symbols = st.symbols
    /\ byKind = st.byKind /\ byFile = st.byFile
    /\ workers = 1 /\ skipPHP = FALSE /\ skipJS = FALSE
    /\ phpFiles = <<>> /\ jsFiles = <<>> /\ fails = {}
    /\ mainpc = "resolve" /\ phase = "js"
    /\ ch = <<>> /\ errCh = 0 /\ nerrs = 0
    /\ attempted = [f \in FileIds |-> 0]
    /\ wpc = [w \in Workers |-> "done"]
    /\ wfile = [w \in Workers |-> 0]
    /\ wev = [w \in Workers |-> 0]
    /\ wtmp = [w \in Workers |-> NoTmp]
    /\ rpass = 0 /\ rtodo = {} /\ hooksByTag = EmptyMap /\ stats = ZeroStats
    /\ lookups = <<>> /\ heap0 = <<>> /\ first = <<>>
    /\ mu = [writer |-> 0, readers |-> {}]
    /\ cpc = <<>> /\ cop = <<>> /\ ctmp = <<>> /\ cdone = <<>> /\ cres = <<>>

\* A source tree of types that inherit methods.  Unit 1 is always there.
\*   1: interface I extends <e1>, <e2> { function s(); }
\*   2: interface A { function s(); }
\*   3: interface B { function s(); }
\*   4: namespace n; interface A {}
\*   5: interface D extends A { function s(); }
\*   6: class Base { function s() {} }
\*   7: class Child extends Base { function s() {} }
\*   8: (JS) class K { s() {} }
\*   9: (JS) class J extends K { s() {} }
HierUnits == {2, 3, 4, 5, 6, 7, 8, 9}
FirstRefs == {<<"A">>, <<"n", "\\", "A">>, <<"Z">>}
SecondRefs == {<<"B">>, <<"A">>}
MethodS == <<[name |-> <<"s">>, calls |-> <<>>]>>

HierProgram(u, e1, e2) ==
    CASE u = 1 -> phpHandleInterface(<<>>, <<"I">>, <<e1, e2>>, MethodS, u)
      [] u = 2 -> phpHandleInterface(<<>>, <<"A">>, <<>>, MethodS, u)
      [] u = 3 -> phpHandleInterface(<<>>, <<"B">>, <<>>, MethodS, u)
      [] u = 4 -> phpHandleInterface(<<"n">>, <<"A">>, <<>>, <<>>, u)
      [] u = 5 -> phpHandleInterface(<<>>, <<"D">>, <<<<"A">>>>, MethodS, u)
      [] u = 6 -> phpHandleClass(<<>>, <<"B", "a", "s", "e">>, <<>>, <<>>, <<>>, MethodS, u)
      [] u = 7 -> phpHandleClass(<<>>, <<"C", "h", "i", "l", "d">>,
                                 <<<<"B", "a", "s", "e">>>>, <<>>, <<>>, MethodS, u)
      [] u = 8 -> jsHandleClass(<<"K">>, <<>>, <<>>, MethodS, u)
      [] OTHER -> jsHandleClass(<<"J">>, <<<<"K">>>>, <<>>, MethodS, u)

RECURSIVE HierUnitsProgram(_, _, _)
HierUnitsProgram(us, e1, e2) ==
    IF us = {} THEN <<>>
    ELSE LET u == Max(us)
         IN  HierUnitsProgram(us \ {u}, e1, e2) \o HierProgram(u, e1, e2)

\* The resolver alone, on the registry extracted from unit 1 and up to MaxUnits others.
InitOverride ==
    \E us \in SUBSET HierUnits : \E e1 \in FirstRefs : \E e2 \in SecondRefs :
        /\ Cardinality(us) <= MaxUnits
        /\ ResolveFrom(ingestAll(EmptyReg, HierUnitsProgram(us \cup {1}, e1, e2)))

SpecOverride == InitOverride /\ [][NextResolve]_vars

\* One caller of a fresh Registry making up to MaxAdds Add calls, with symbols that
\* share IDs, kinds and files.
UpsertSymbols ==
    {NewSymbol(id, id, k, "php", f) : id \in {<<"a">>, <<"b">>},
                                      k \in {"function", "class"}, f \in {1, 2}}

InitAdds ==
    /\ heap = <<>> /\ symbols = EmptyMap /\ byKind = EmptyMap /\ byFile = EmptyMap
    /\ workers = 0 /\ skipPHP = FALSE /\ skipJS = FALSE
    /\ phpFiles = <<>> /\ jsFiles = <<>> /\ fails = {}
    /\ mainpc = "adds" /\ phase = ""
    /\ ch = <<>> /\ errCh = 0 /\ nerrs = 0
    /\ attempted = [f \in FileIds |-> 0]
    /\ wpc = <<>> /\ wfile = <<>> /\ wev = <<>> /\ wtmp = <<>>
    /\ rpass = 0 /\ rtodo = {} /\ hooksByTag = EmptyMap /\ stats = ZeroStats
    /\ lookups = <<>> /\ heap0 = <<>> /\ first = <<>>
    /\ mu = [writer |-> 0, readers |-> {}]
    /\ cpc = <<>> /\ cop = <<>> /\ ctmp = <<>> /\ cdone = <<>> /\ cres = <<>>

AddCall(s) ==
    /\ mainpc = "adds" /\ Len(heap) < MaxAdds
    /\ Add(s)
    /\ UNCHANGED <<cfgVars, first, callVars, mainpc, phase, poolVars, resVars>>

SpecAdds == InitAdds /\ [][\E s \in UpsertSymbols : AddCall(s)]_vars

\* A source tree that fires hooks.  Unit 1 is always there; it fires 'i' k times.
\*   1: function g() { do_action('i'); ... }
\*   2: class C { function s() { apply_filters('i'); } }
\*   3: function h() { do_action('j'); }
\*   4: class D extends C { function s() {} }
HookUnits == {2, 3}
EdgeUnits == {2, 3, 4}
Str_j == <<"j">>
Fires(k) == [n \in 1..k |-> Call(Str_init, "action")]

HookProgram(u, k) ==
    CASE u = 1 -> phpHandleFunction(<<>>, <<"g">>, <<>>, Fires(k), u)
      [] u = 2 -> phpHandleClass(<<>>, <<"C">>, <<>>, <<>>, <<>>,
                     <<[name |-> <<"s">>, calls |-> <<Call(Str_init, "filter")>>]>>, u)
      [] u = 3 -> phpHandleFunction(<<>>, <<"h">>, <<>>, <<Call(Str_j, "action")>>, u)
      [] OTHER -> phpHandleClass(<<>>, <<"D">>, <<<<"C">>>>, <<>>, <<>>, MethodS, u)

RECURSIVE HookUnitsProgram(_, _)
HookUnitsProgram(us, k) ==
    IF us = {} THEN <<>>
    ELSE LET u == Max(us) IN HookUnitsProgram(us \ {u}, k) \o HookProgram(u, k)

\* Symbol.Uses is a field no extractor fills: a registry whose symbols have Uses
\* entries is one a caller of the model package builds.  SetUses is that assignment
\* on the symbol with the given ID, if there is one.
UsesLists == {<<>>, <<Str_init>>, <<Str_init, Str_init>>, <<Str_init, Str_j>>, <<<<"z">>>>}
SetUses(st, id, uses) ==
    IF id \in DOMAIN st.symbols
    THEN [st EXCEPT !.heap[st.symbols[id]].Uses = uses]
    ELSE st

\* The resolver alone, on the registry extracted from the hook-firing tree, the
\* function g, the method C::s and the class C given Uses lists.
InitHooks ==
    \E us \in SUBSET HookUnits : \E k \in 1..MaxFires :
    \E ug \in UsesLists : \E um \in {<<>>, <<Str_init>>} : \E uc \in {<<>>, <<Str_init>>} :
        ResolveFrom(
            SetUses(SetUses(SetUses(ingestAll(EmptyReg, HookUnitsProgram(us \cup {1}, k)),
                                    <<"g">>, ug),
                            <<"C", ":", ":", "s">>, um),
                    <<"C">>, uc))

SpecHooks == InitHooks /\ [][NextResolve]_vars

\* The same with unit 4 in the tree: a registry with hooks to bind and a method that
\* overrides another.
InitEdges ==
    \E us \in SUBSET EdgeUnits : \E k \in 1..MaxFires :
    \E ug \in UsesLists : \E um \in {<<>>, <<Str_init>>} : \E uc \in {<<>>, <<Str_init>>} :
        ResolveFrom(
            SetUses(SetUses(SetUses(ingestAll(EmptyReg, HookUnitsProgram(us \cup {1}, k)),
                                    <<"g">>, ug),
                            <<"C", ":", ":", "s">>, um),
                    <<"C">>, uc))

SpecEdges == InitEdges /\ [][NextResolve]_vars

\* The same tree with a function k whose docblock has one @see line: a registry on
\* which each of the four passes has something to do.
TallySeeRefs == {<<"C", ":", ":", "s", "(", ")">>, <<"z">>, <<" ">>}
InitTally ==
    \E us \in SUBSET EdgeUnits : \E k \in 1..MaxFires :
    \E ug \in UsesLists : \E see \in TallySeeRefs :
        ResolveFrom(
            SetUses(ingestAll(EmptyReg,
                              HookUnitsProgram(us \cup {1}, k)
                                  \o phpHandleFunction(<<>>, <<"k">>, <<see>>, <<>>, 5)),
                    <<"g">>, ug))

SpecTally == InitTally /\ [][NextResolve]_vars

\* ResolveAll run a second time from the same registry contents: what the first run
\* left is kept in first, the Symbol objects are put back as they were, and a new
\* Resolver (resolver.New) is about to run.
ResolveAgain ==
    /\ rpass = 5 /\ first = <<>>
    /\ first' = <<heap, stats>>
    /\ heap' = heap0
    /\ mainpc' = "resolve"
    /\ rpass' = 0 /\ rtodo' = {} /\ hooksByTag' = EmptyMap /\ stats' = ZeroStats
    /\ lookups' = <<>> /\ heap0' = <<>>
    /\ UNCHANGED <<symbols, byKind, byFile, cfgVars, callVars, phase, poolVars>>

SpecTwoRuns == InitOverride /\ [][NextResolve \/ ResolveAgain]_vars

\* A source tree with a chain of classes, and methods whose owner is not in the
\* registry.  Unit 1 is always there.
\*   1: class Child extends <e> { function s() {} }
\*   2: class P extends G { <pm> }          (pm: function s() {}, or nothing)
\*   3: class G { function s() {} }
\*   4: interface I extends Z, B { function s(); }
\*   5: interface B { function s(); }
\*   6: namespace n; class X extends \X { function s() {} }
LineageUnits == {2, 3, 4, 5, 6}
ParentRefs == {<<"P">>, <<"Z">>, <<"Q">>}

LineageProgram(u, e, pm) ==
    CASE u = 1 -> phpHandleClass(<<>>, <<"C", "h", "i", "l", "d">>, <<e>>, <<>>, <<>>,
                                 MethodS, u)
      [] u = 2 -> phpHandleClass(<<>>, <<"P">>, <<<<"G">>>>, <<>>, <<>>, pm, u)
      [] u = 3 -> phpHandleClass(<<>>, <<"G">>, <<>>, <<>>, <<>>, MethodS, u)
      [] u = 4 -> phpHandleInterface(<<>>, <<"I">>, <<<<"Z">>, <<"B">>>>, MethodS, u)
      [] u = 5 -> phpHandleInterface(<<>>, <<"B">>, <<>>, MethodS, u)
      [] OTHER -> phpHandleClass(<<"n">>, <<"X">>, <<<<"\\", "X">>>>, <<>>, <<>>, MethodS, u)

RECURSIVE LineageUnitsProgram(_, _, _)
LineageUnitsProgram(us, e, pm) ==
    IF us = {} THEN <<>>
    ELSE LET u == Max(us) IN LineageUnitsProgram(us \ {u}, e, pm) \o LineageProgram(u, e, pm)

\* The extractors give every method the ID of its class as ParentID and add the class
\* first: a method with no owner, or with an owner the registry does not hold, is one a
\* caller of the model package adds with Registry.Add.
OrphanMethod(id, parentID) ==
    [NewSymbol(id, <<"s">>, "method", "php", 0) EXCEPT !.ParentID = parentID]
Orphans == {<<>>,
            <<OrphanMethod(<<"o">>, <<>>)>>,
            <<OrphanMethod(<<"Q", ":", ":", "s">>, <<"Q">>)>>}

RECURSIVE addAll(_, _)
addAll(st, syms) ==
    IF syms = <<>> THEN st ELSE addAll(ingestAdd(st, Head(syms)), Tail(syms))

\* The resolver alone, on the registry extracted from unit 1 and up to MaxUnits other
\* units of the chain, with the orphan methods added.
InitLineage ==
    \E us \in SUBSET LineageUnits : \E e \in ParentRefs : \E pm \in {<<>>, MethodS} :
    \E orphans \in Orphans :
        /\ Cardinality(us) <= MaxUnits
        /\ ResolveFrom(addAll(ingestAll(EmptyReg, LineageUnitsProgram(us \cup {1}, e, pm)),
                              orphans))

SpecLineage == InitLineage /\ [][NextResolve]_vars

\* A source tree with a docblock of three @see lines.  Unit 1 is always there; the
\* others are units 2 to 7 of the tree above.
\*   1: /** @see <s1>  @see <s2>  @see <s3> */ function g() {}
SecondSeeRefs == {<<"f">>, <<"z">>, <<" ">>}
ThirdSeeRefs == {<<" ">>, <<"z">>}
SeeProgram(s1, s2, s3) == phpHandleFunction(<<>>, <<"g">>, <<s1, s2, s3>>, <<>>, 1)

\* The resolver alone, on the registry extracted from unit 1 and up to MaxUnits others.
InitSee ==
    \E us \in SUBSET OtherUnits :
    \E s1 \in SeeRefs : \E s2 \in SecondSeeRefs : \E s3 \in ThirdSeeRefs :
        /\ Cardinality(us) <= MaxUnits
        /\ ResolveFrom(ingestAll(EmptyReg,
                                 SeeProgram(s1, s2, s3) \o UnitsProgram(us, <<>>, <<>>, <<>>)))

SpecSee == InitSee /\ [][NextResolve]_vars

\* ResolveAll run a second time on the registry the first run resolved: what the first
\* run left is kept in first, the Symbol objects stay as they are, and a new Resolver
\* (resolver.New) is about to run.
ResolveAgainInPlace ==
    /\ rpass = 5 /\ first = <<>>
    /\ first' = <<heap, stats>>
    /\ mainpc' = "resolve"
    /\ rpass' = 0 /\ rtodo' = {} /\ hooksByTag' = EmptyMap /\ stats' = ZeroStats
    /\ lookups' = <<>> /\ heap0' = <<>>
    /\ UNCHANGED <<regVars, cfgVars, callVars, phase, poolVars>>

\* Two runs in a row, on the registries of the reference tree, the hook tree and the
\* class chain.
InitRerun == InitResolve \/ InitEdges \/ InitLineage

SpecRerun == InitRerun /\ [][NextResolve \/ ResolveAgainInPlace]_vars

\* =================================================================== claims
\* ------------------------------------------------- what a run should produce
\* the files a ParseFiles call is given and that parse: in list order
ParsedFiles(ph) ==
    IF Skipped(ph) THEN <<>> ELSE SelectSeq(FilesOf(ph), LAMBDA f : f \notin fails)
GivenFiles(ph) == IF Skipped(ph) THEN {} ELSE SeqToSet(FilesOf(ph))
AllParsed == SeqToSet(ParsedFiles("php")) \cup SeqToSet(ParsedFiles("js"))

\* the extraction events of the files that parse, as <<file, index>>
Events(op) == {e \in UNION {{<<f, i>> : i \in 1..Len(Program(f))} : f \in AllParsed} :
                 Program(e[1])[e[2]].op = op}
EvOf(e) == Program(e[1])[e[2]]
FiredTags == {EvOf(e).tag : e \in Events("hook")} \ {<<>>}
CallSitesOf(tag) == {EvOf(e).caller : e \in {x \in Events("hook") : EvOf(x).tag = tag}}
ExpectedIDs == {EvOf(e).sym.ID : e \in Events("add")} \cup {Str_hook \o t : t \in FiredTags}
ExpectedKindLen(k) ==
    Cardinality({e \in Events("add") : EvOf(e).sym.Kind = k})
    + (IF k = "hook" THEN Cardinality(FiredTags) ELSE 0)

IngestionOver == mainpc = "resolve"

\* C1: ParseFiles terminates for every file list, every worker count N >= 1 and every
\* number of failing files: while ParseFiles is running (RunE is inside it, at
\* wg.Wait), either some worker can take a step or wg.Wait can return; no worker is
\* stuck for good in its send of a per-file error.
C1_ParseFilesTerminates ==
    (mainpc = "wait" /\ workers >= 1) => ENABLED NextIngest

\* C2: after ingestion by N >= 1 workers, every hook tag T fired from k call sites has
\* exactly one Hook symbol (one entry under hook:T, one entry with that tag in the hook
\* kind index) and the set of its CallSites is the set of the k call sites.
C2_HookMerge ==
    (IngestionOver /\ workers >= 1) =>
        \A t \in FiredTags :
            /\ Get(Str_hook \o t) # NIL
            /\ Cardinality({i \in 1..Len(ByKind("hook")) :
                               heap[ByKind("hook")[i]].HookTag = t}) = 1
            /\ SeqToSet(heap[Get(Str_hook \o t)].CallSites) = CallSitesOf(t)

\* C3: for a fixed input, Count and the length of every per-kind list after ingestion
\* do not depend on the worker count (N >= 1) or the interleaving: they are what the
\* input determines (one entry per extracted symbol, one per distinct hook tag).
C3_OrderIndependence ==
    (IngestionOver /\ workers >= 1) =>
        /\ Count = Cardinality(ExpectedIDs)
        /\ \A k \in Kinds : Len(ByKind(k)) = ExpectedKindLen(k)

\* C5: a failing file contributes no symbol, every other file is parsed and its symbols
\* are inserted, and ParseFiles returns however many files fail.
C5_FailureIsolation ==
    /\ (mainpc = "wait" /\ workers >= 1) => (WaitReturns \/ ENABLED NextIngest)
    /\ (IngestionOver /\ workers >= 1) =>
          \A f \in GivenFiles("php") \cup GivenFiles("js") :
              /\ attempted[f] = 1
              /\ f \in fails => ByFile(f) = <<>>
              /\ f \notin fails =>
                    \A i \in 1..Len(Program(f)) :
                        Program(f)[i].op = "add" => Get(Program(f)[i].sym.ID) # NIL

\* C7: during ingestion no two workers are at the same time inside an unsynchronised
\* read-modify-write (the append to CallSites or to Members) of the same Symbol that is
\* reachable through the Registry.
InRMW(w) == wpc[w] \in {"hookLoad", "hookStore", "memLoad", "memStore"}
C7_NoUnsynchronisedSharedWrite ==
    \A w1 \in Workers : \A w2 \in Workers :
        (w1 # w2 /\ InRMW(w1) /\ InRMW(w2)) => wtmp[w1].addr # wtmp[w2].addr

\* C6: completion barrier.  Once ResolveAll has started (and in every state of its four
\* passes) every ingestion worker of both ParseFiles calls has exited and no ingestion
\* step (no Registry.Add, no extractor write to a Symbol) can be taken any more.
C6_CompletionBarrier ==
    rpass >= 1 =>
        /\ \A w \in Workers : wpc[w] \in {"idle", "done"}
        /\ ~ENABLED NextIngest

\* a run in which two workers took files in both ParseFiles calls and the resolver is
\* at work on a non-empty registry
C6_Witness ==
    /\ rpass \in 1..4 /\ workers = 2 /\ Count > 0
    /\ \E f \in PHPFileIds : attempted[f] = 1
    /\ \E f \in JSFileIds : attempted[f] = 1

\* C4: Registry.Add is safe under concurrent callers.  In every state reached by callers
\* that add symbols with pairwise distinct IDs while others call Get, All, ByKind,
\* ByFile and Count: every symbol whose Add returned is what Get returns for its ID and
\* occurs exactly once in its kind list and once in its file list; whenever no Add is
\* in progress Count is the number of Adds that returned; and a Count call returns the
\* number of Adds that had returned (no reader sees part of an insert).
Occurrences(list, a) == Cardinality({i \in 1..Len(list) : list[i] = a})
AddsReturned == {<<c, j>> \in Adders \X (1..AddsPerCaller) : j <= cdone[c]}
C4_AddIsConcurrentSafe ==
    /\ \A e \in AddsReturned :
          LET id == AdderSymbol(e[1], e[2]).ID
          IN  /\ Get(id) # NIL
              /\ heap[Get(id)] = AdderSymbol(e[1], e[2])
              /\ Occurrences(ByKind("function"), Get(id)) = 1
              /\ Occurrences(ByFile(e[2]), Get(id)) = 1
    /\ (\A c \in Adders : cpc[c] = "idle") => Count = Cardinality(AddsReturned)
    /\ \A c \in Readers : (cpc[c] = "runlock" /\ cop[c].m = "Count")
          => cres[c] = Cardinality(AddsReturned)

\* every caller made all its calls: NumAdders * AddsPerCaller symbols are in, and a
\* reader's Count call ran between two Adds
C4_Witness ==
    /\ \A c \in Adders : cdone[c] = AddsPerCaller
    /\ \E c \in Readers : cdone[c] >= 1 /\ cop[c].m = "Count" /\ cres[c] \in 1..(NumAdders * AddsPerCaller - 1)

\* ------------------------------------------------------- name lookup, as specified
IDs == DOMAIN symbols
Normalised(ref) == [i \in 1..Len(ref) |-> IF ref[i] = "/" THEN "\\" ELSE ref[i]]
Suffixes(ref) == {SubSeq(ref, k, Len(ref)) : k \in 1..(Len(ref) + 1)}

\* the substring after the last separator: the suffix that holds no separator and is
\* the whole string or follows one
SpecShortName(ref, seps) ==
    CHOOSE t \in Suffixes(ref) :
        /\ \A i \in 1..Len(t) : t[i] \notin seps
        /\ Len(t) = Len(ref) \/ ref[Len(ref) - Len(t)] \in seps

Named(n) == {a \in All : heap[a].Name = n}

\* steps (a) to (d) of the name-lookup algorithm, with seps the separators of step (c)
SpecLookup(ref, seps) ==
    IF ref \in IDs THEN symbols[ref]
    ELSE IF Normalised(ref) \in IDs THEN symbols[Normalised(ref)]
    ELSE IF \E a \in All : Named(SpecShortName(ref, seps)) = {a}
         THEN CHOOSE a \in All : Named(SpecShortName(ref, seps)) = {a}
         ELSE NIL

PathSeps == {"\\", "/"}
AllSeps == {"\\", "/", ":"}

\* only a short-name match is possible for ref, and several symbols have that name
Ambiguous(ref) ==
    /\ ref \notin IDs /\ Normalised(ref) \notin IDs
    /\ Cardinality(Named(SpecShortName(ref, AllSeps))) >= 2

\* the name a reference entry stands for: an @see entry without its blanks and its ()
SeeName(entry) == TrimSuffix(TrimSpace(entry), Str_parens)

Resolving == rpass >= 1
SeeDone(a) == rpass >= 4 \/ (rpass = 3 /\ a \notin rtodo)

C9_LookupAsClaimed ==
    \A i \in 1..Len(lookups) : lookups[i][2] = SpecLookup(lookups[i][1], PathSeps)

\* C9 (amended): every findSymbol call returns (a) the symbol whose ID is the string,
\* else (b) the symbol whose ID is the string with every / replaced by \, else (c) the
\* unique symbol whose Name is the substring after the last of the characters \ / and
\* :, or no symbol when zero or several symbols have that Name.
C9_LookupAmended ==
    \A i \in 1..Len(lookups) : lookups[i][2] = SpecLookup(lookups[i][1], AllSeps)

\* a lookup of a member-qualified name (with ::) that matched no ID and was resolved
\* by the short name after the last colon
C9_Witness ==
    \E i \in 1..Len(lookups) :
        /\ ":" \in SeqToSet(lookups[i][1])
        /\ lookups[i][1] \notin IDs /\ Normalised(lookups[i][1]) \notin IDs
        /\ lookups[i][2] # NIL
        /\ heap[lookups[i][2]].Name = SpecShortName(lookups[i][1], {":"})

\* the docblock reference `@see some_function()`: the function is f here
Str_f == <<"f">>
Str_fcall == <<"f", "(", ")">>

\* C10 (as claimed): after resolution, a SeeAlso entry written f() is the ID of the
\* symbol named f if exactly one exists, and is the literal string f if two exist.
C10_SeeAsClaimed ==
    Resolving => \A a \in All : \A i \in 1..Len(heap0[a].SeeAlso) :
        (SeeDone(a) /\ heap0[a].SeeAlso[i] = Str_fcall) =>
            /\ Cardinality(Named(Str_f)) = 1
                  => \E b \in Named(Str_f) : heap[a].SeeAlso[i] = heap[b].ID
            /\ Cardinality(Named(Str_f)) = 2 => heap[a].SeeAlso[i] = Str_f

\* C10 (amended): ... if exactly one symbol named f exists the entry is that symbol's
\* ID; if two exist the entry is the ID f when one of them has that ID, and otherwise
\* is left as written, f() with its parentheses.
C10_SeeAmended ==
    Resolving => \A a \in All : \A i \in 1..Len(heap0[a].SeeAlso) :
        (SeeDone(a) /\ heap0[a].SeeAlso[i] = Str_fcall) =>
            /\ Cardinality(Named(Str_f)) = 1
                  => \E b \in Named(Str_f) : heap[a].SeeAlso[i] = heap[b].ID
            /\ Cardinality(Named(Str_f)) = 2
                  => heap[a].SeeAlso[i] = (IF Str_f \in IDs THEN Str_f ELSE Str_fcall)

\* resolution is over for an entry f() with two symbols named f, neither with ID f
C10_Witness ==
    rpass = 5 /\ \E a \in All : \E i \in 1..Len(heap0[a].SeeAlso) :
        /\ heap0[a].SeeAlso[i] = Str_fcall
        /\ Cardinality(Named(Str_f)) = 2 /\ Str_f \notin IDs
        /\ heap[a].SeeAlso[i] = Str_fcall

\* ------------------------------------------------------------ method overrides
ResolveAllOver == rpass = 5
MethodsOf(owner) == {m \in All : heap[m].Kind = "method" /\ heap[m].ParentID = heap[owner].ID}

\* the class an Extends entry names, as pass 1 resolves it (NIL: none, or not a class)
BaseClassOf(entry) ==
    IF SpecLookup(entry, AllSeps) # NIL /\ heap[SpecLookup(entry, AllSeps)].Kind = "class"
    THEN SpecLookup(entry, AllSeps)
    ELSE NIL

\* C11: override detection.  After ResolveAll, for every class Child with an Extends
\* entry naming a class Base that pass 1 resolves, and every method name m both define,
\* Child::m has Overrides equal to the ID of Base::m, and the UsedBy of Base::m holds
\* the ID of Child::m.
C11_OverrideDetection ==
    ResolveAllOver =>
        \A child \in All : \A i \in 1..Len(heap0[child].Extends) :
            (heap[child].Kind = "class" /\ BaseClassOf(heap0[child].Extends[i]) # NIL) =>
                \A mc \in MethodsOf(child) :
                \A mb \in MethodsOf(BaseClassOf(heap0[child].Extends[i])) :
                    heap[mc].Name = heap[mb].Name =>
                        /\ heap[mc].Overrides = heap[mb].ID
                        /\ heap[mc].ID \in SeqToSet(heap[mb].UsedBy)

\* ---------------------------------------------------------- inheritance lists
InheritDone(a) == rpass >= 2 \/ (rpass = 1 /\ a \notin rtodo)

\* new is old with each name that lookup finds replaced by the ID found, the others
\* kept, position by position
RewrittenInPlace(old, new) ==
    /\ Len(new) = Len(old)
    /\ \A i \in 1..Len(old) :
          new[i] = (IF SpecLookup(old[i], AllSeps) # NIL
                    THEN heap[SpecLookup(old[i], AllSeps)].ID
                    ELSE old[i])

\* C12: inheritance resolution rewrites in place and drops nothing.  For every class
\* or interface symbol that pass 1 has visited, the Extends and the Implements list
\* have their original length and order, each entry that name lookup finds is the ID
\* of the symbol found, and each entry that lookup misses is the original string.
C12_InheritanceInPlace ==
    Resolving =>
        \A a \in All :
            (heap[a].Kind \in {"class", "interface"} /\ InheritDone(a)) =>
                /\ RewrittenInPlace(heap0[a].Extends, heap[a].Extends)
                /\ RewrittenInPlace(heap0[a].Implements, heap[a].Implements)

\* ResolveAll is over for a class whose Implements entry names nothing ingested and is
\* still there, and whose Extends entry was rewritten to another string
C12_Witness ==
    ResolveAllOver /\ \E a \in All :
        /\ heap[a].Kind = "class"
        /\ \E i \in 1..Len(heap0[a].Implements) :
              /\ SpecLookup(heap0[a].Implements[i], AllSeps) = NIL
              /\ heap[a].Implements[i] = heap0[a].Implements[i]
        /\ \E i \in 1..Len(heap0[a].Extends) : heap[a].Extends[i] # heap0[a].Extends[i]

\* ----------------------------------------------------------------- determinism
\* the fields of a Symbol that resolution writes
ResolvedFields(sym) ==
    [Extends |-> sym.Extends, Implements |-> sym.Implements, SeeAlso |-> sym.SeeAlso,
     Overrides |-> sym.Overrides, UsedBy |-> sym.UsedBy]

SecondRunOver == rpass = 5 /\ first # <<>>

\* C13: resolution determinism.  When two runs of ResolveAll start from equal registry
\* contents, whatever order Registry.All() yields the symbols in, the second run ends
\* with the Stats of the first and, for every symbol, with the same Extends,
\* Implements, SeeAlso, Overrides and UsedBy.
C13_ResolutionDeterminism ==
    SecondRunOver =>
        /\ stats = first[2]
        /\ \A a \in All : ResolvedFields(heap[a]) = ResolvedFields(first[1][a])

\* ------------------------------------------------------------------- identity
\* C14: the set of IDs only grows and IDs are stable.  In every step of a run (the Add
\* calls of ingestion, then the four resolver passes) Count does not decrease, every
\* ID that Get found is still found, every Symbol object keeps its ID, and the symbol
\* Get returns for an ID has that ID.
C14_IDsGrowAndStable ==
    [][/\ Cardinality(DOMAIN symbols') >= Count
       /\ DOMAIN symbols \subseteq DOMAIN symbols'
       /\ \A a \in 1..Len(heap) : a <= Len(heap') /\ heap'[a].ID = heap[a].ID
       /\ \A id \in DOMAIN symbols' : heap'[symbols'[id]].ID = id]_vars

\* a run that added symbols in both ParseFiles calls, with a file that failed, and
\* whose resolver passes wrote fields
C14_Witness ==
    /\ ResolveAllOver /\ Count >= 5 /\ fails # {}
    /\ heap # heap0
    /\ \E a \in All : heap[a].Language = "js"

\* ---------------------------------------------------------------- monotonicity
IsPrefix(s, t) == Len(s) <= Len(t) /\ \A i \in 1..Len(s) : t[i] = s[i]

\* the entries of old that were rewritten (they differ from orig) are the same in new
RewritesKept(orig, old, new) ==
    \A i \in 1..Len(old) :
        old[i] # orig[i] => (i <= Len(new) /\ new[i] = old[i])

\* C15: no resolver pass deletes a previously resolved field.  In every step of
\* ResolveAll, for every symbol: an Extends, Implements or SeeAlso entry that was
\* rewritten to a symbol ID stays that ID, an Overrides that was set stays as set, and
\* the UsedBy list keeps every ID it held (it only grows).
C15_ResolvedFieldsKept ==
    [][rpass >= 1 =>
          \A a \in All :
              /\ RewritesKept(heap0[a].Extends, heap[a].Extends, heap'[a].Extends)
              /\ RewritesKept(heap0[a].Implements, heap[a].Implements, heap'[a].Implements)
              /\ RewritesKept(heap0[a].SeeAlso, heap[a].SeeAlso, heap'[a].SeeAlso)
              /\ InheritDone(a) => /\ heap'[a].Extends = heap[a].Extends
                                   /\ heap'[a].Implements = heap[a].Implements
              /\ SeeDone(a) => heap'[a].SeeAlso = heap[a].SeeAlso
              /\ heap[a].Overrides # <<>> => heap'[a].Overrides = heap[a].Overrides
              /\ IsPrefix(heap[a].UsedBy, heap'[a].UsedBy)]_vars

\* ResolveAll is over: a method is overridden by two others, and an Extends entry was
\* rewritten
C15_Witness ==
    /\ ResolveAllOver
    /\ \E a \in All : Len(heap[a].UsedBy) = 2
    /\ \E a \in All : heap[a].Overrides # <<>>
    /\ \E a \in All : \E i \in 1..Len(heap0[a].Extends) :
          heap[a].Extends[i] # heap0[a].Extends[i]

\* ------------------------------------------------------------------- hooks
HookSymbols == {a \in 1..Len(heap) : heap[a].Kind = "hook"}
NoDuplicates(list) == \A i, j \in 1..Len(list) : list[i] = list[j] => i = j

\* C16: the CallSites list of a hook symbol never holds the same call-site entry twice,
\* whatever hook registrations were made for its tag.
C16_NoDuplicateCallSites == \A h \in HookSymbols : NoDuplicates(heap[h].CallSites)

\* the IDs of the function and method symbols whose Uses list holds the tag of hook h
UsersOf(h) ==
    {heap[f].ID : f \in {x \in All : /\ heap[x].Kind \in {"function", "method"}
                                     /\ heap[h].HookTag \in SeqToSet(heap[x].Uses)}}

\* C18: hook binding.  After ResolveAll, the UsedBy list of every registered hook h
\* holds, exactly once each, the IDs of the function and method symbols with a Uses
\* entry equal to the tag of h, and nothing else; the UsedBy of the other symbols is as
\* it was (symbols of other kinds, and Uses entries matching no tag, add nothing).
C18_HookBinding ==
    ResolveAllOver =>
        /\ \A h \in All \cap HookSymbols :
              /\ SeqToSet(heap[h].UsedBy) = UsersOf(h)
              /\ NoDuplicates(heap[h].UsedBy)
        /\ \A a \in All \ HookSymbols : heap[a].UsedBy = heap0[a].UsedBy

\* ResolveAll is over: a hook is used by two symbols, one of which lists its tag
\* twice, a class lists the tag too, and some Uses entry matches no hook
C18_Witness ==
    /\ ResolveAllOver
    /\ \E h \in All \cap HookSymbols :
          /\ Len(heap[h].UsedBy) = 2
          /\ \E f \in All : /\ heap[f].ID \in SeqToSet(heap[h].UsedBy)
                            /\ heap[f].Uses = <<heap[h].HookTag, heap[h].HookTag>>
          /\ \E c \in All : heap[c].Kind = "class" /\ heap[h].HookTag \in SeqToSet(heap[c].Uses)

\* ------------------------------------------------------------------ pass order
\* the fields a step changed on a Symbol are among fs
OnlyChanges(a, fs) ==
    \A f \in DOMAIN heap[a] : f \notin fs => heap'[a][f] = heap[a][f]

PassWrites ==
    <<{"Extends", "Implements"}, {"UsedBy"}, {"SeeAlso"}, {"Overrides", "UsedBy"}>>

\* C17: ResolveAll runs inheritance resolution, hook binding, @see resolution and
\* method-override resolution in that order.  In every step the pass number stays or
\* goes to the next; a pass begins over all symbols and the next begins only when none
\* is left; the steps of pass p write the fields of pass p only; and when pass 4 begins
\* every Extends list is as pass 1 leaves it.
C17_PassOrder ==
    [][/\ rpass' \in {rpass, rpass + 1}
       /\ (rpass' = rpass + 1 /\ rpass >= 1) => rtodo = {}
       /\ (rpass' = rpass + 1 /\ rpass' <= 4) => rtodo' = All
       /\ rpass \in 1..4 =>
             \A a \in All : OnlyChanges(a, IF rpass' = rpass THEN PassWrites[rpass] ELSE {})
       /\ rpass' = 4 =>
             \A a \in All : heap[a].Kind \in {"class", "interface"} =>
                 RewrittenInPlace(heap0[a].Extends, heap'[a].Extends)]_vars

\* pass 4 is under way and has set the Overrides of a method from an Extends entry of
\* its owner that pass 1 rewrote
C17_Witness ==
    /\ rpass = 4 /\ rtodo # {}
    /\ \E m \in All :
          /\ heap[m].Overrides # <<>>
          /\ heap[m].ParentID \in DOMAIN symbols
          /\ \E i \in 1..Len(heap0[symbols[heap[m].ParentID]].Extends) :
                /\ heap[symbols[heap[m].ParentID]].Extends[i]
                      # heap0[symbols[heap[m].ParentID]].Extends[i]
                /\ heap[m].Overrides
                      = heap[symbols[heap[m].ParentID]].Extends[i] \o Str_dcolon \o heap[m].Name

\* ----------------------------------------------------------- first match wins
\* the method of this name that the symbol with ID ext owns; its ID is ext::name
SuperMethodID(ext, name) == ext \o <<":", ":">> \o name

\* the positions of the owner's Extends list that are existing symbols owning a method
\* of this name
MatchesOf(exts, name) ==
    {i \in 1..Len(exts) : exts[i] \in IDs /\ SuperMethodID(exts[i], name) \in IDs}

OwnedMethods == {m \in All : heap[m].Kind = "method" /\ heap[m].ParentID \in IDs}
OwnerExtends(m) == heap[symbols[heap[m].ParentID]].Extends

\* C19: override first-match-wins.  After ResolveAll, for every method whose owner is
\* a symbol: if some Extends entry of the owner is an existing symbol owning a method
\* of the same name, Overrides is the ID of that method of the first such entry in
\* list order, and among the same-named methods of the owner's Extends entries only
\* that one has the method's ID in its UsedBy; if there is none, Overrides is empty.
C19_FirstMatchWins ==
    ResolveAllOver =>
        \A m \in OwnedMethods :
            LET exts == OwnerExtends(m)
                hits == MatchesOf(exts, heap[m].Name)
            IN  /\ hits = {} => heap[m].Overrides = <<>>
                /\ \A k \in hits :
                      (\A j \in hits : k <= j) =>
                          /\ heap[m].Overrides = SuperMethodID(exts[k], heap[m].Name)
                          /\ \A j \in hits :
                                heap[m].ID \in
                                    SeqToSet(heap[symbols[SuperMethodID(exts[j],
                                                                       heap[m].Name)]].UsedBy)
                                <=> exts[j] = exts[k]

\* ResolveAll is over for a method whose owner has two Extends entries that both own a
\* method of its name: it overrides the first one's and is not in the second one's UsedBy
C19_Witness ==
    /\ ResolveAllOver
    /\ \E m \in OwnedMethods :
          /\ Len(OwnerExtends(m)) = 2
          /\ MatchesOf(OwnerExtends(m), heap[m].Name) = {1, 2}
          /\ OwnerExtends(m)[1] # OwnerExtends(m)[2]
          /\ heap[m].Overrides = SuperMethodID(OwnerExtends(m)[1], heap[m].Name)
          /\ heap[symbols[SuperMethodID(OwnerExtends(m)[2], heap[m].Name)]].UsedBy = <<>>

\* --------------------------------------------------------------------- upsert
\* The Add calls made so far are the Symbol objects allocated so far, in order: the
\* call number a was made with heap[a].
AddCalls == 1..Len(heap)
CallsWithID(id) == {a \in AddCalls : heap[a].ID = id}
CallsWithKind(k) == {a \in AddCalls : heap[a].Kind = k}
CallsWithFile(f) == {a \in AddCalls : heap[a].File = f}
OneEntryPerCall(list, calls) == SeqToSet(list) = calls /\ Len(list) = Cardinality(calls)

\* C20: Add is an upsert on the primary index and an append on the secondary ones.
\* After any sequence of Add calls, Get(id) is the symbol of the most recent Add with
\* that ID (and nothing for an ID never added), Count is the number of distinct IDs
\* added, and ByKind(k) and ByFile(p) hold one entry per Add call made with that kind
\* or file.
C20_AddIsUpsert ==
    /\ \A id \in {<<"a">>, <<"b">>} :
          Get(id) = (IF CallsWithID(id) = {} THEN NIL ELSE Max(CallsWithID(id)))
    /\ Count = Cardinality({heap[a].ID : a \in AddCalls})
    /\ \A k \in Kinds : OneEntryPerCall(ByKind(k), CallsWithKind(k))
    /\ \A f \in {1, 2, 3} : OneEntryPerCall(ByFile(f), CallsWithFile(f))

\* three Add calls were made, two of them with one ID and different kinds, the later
\* of the two being what Get returns
C20_Witness ==
    /\ mainpc = "adds" /\ Len(heap) >= 3
    /\ \E a, b \in AddCalls :
          /\ a < b /\ heap[a].ID = heap[b].ID /\ heap[a].Kind # heap[b].Kind
          /\ Get(heap[a].ID) = b
          /\ Count < Len(heap)

\* ------------------------------------------------------------------ claim C21
\* the symbols whose Add call has returned, and the ones an Add call is inserting
AddedAddrs == {a \in 1..Len(heap) :
                 \E e \in AddsReturned : heap[a] = AdderSymbol(e[1], e[2])}
AllCallOf(c) == c \in Readers /\ cop[c].m = "All"

\* the list All hands back, at the return statement (the read lock still held): it is
\* the primary index of that instant, each ID once, and holds only symbols whose Add
\* call has returned, each of them present in the kind and file lists as well
AllIsSnapshot ==
    \A c \in Readers : (AllCallOf(c) /\ cpc[c] = "runlock") =>
        /\ SeqToSet(cres[c]) = All
        /\ Len(cres[c]) = Cardinality(DOMAIN symbols)
        /\ \A i, j \in 1..Len(cres[c]) : heap[cres[c][i]].ID = heap[cres[c][j]].ID => i = j
        /\ SeqToSet(cres[c]) = AddedAddrs
        /\ \A i \in 1..Len(cres[c]) :
              /\ Occurrences(ByKind(heap[cres[c][i]].Kind), cres[c][i]) = 1
              /\ Occurrences(ByFile(heap[cres[c][i]].File), cres[c][i]) = 1

\* a step taken after All returned leaves the returned list as it is
AllResultKept ==
    \A c \in Readers : (AllCallOf(c) /\ cpc[c] \in {"runlock", "idle"} /\ cop'[c] = cop[c]
                          /\ cpc'[c] \in {"runlock", "idle"}) => cres'[c] = cres[c]

\* C21: All() returns a snapshot: the list returned is the content of the primary
\* index at one instant of the call, with each ID at most once and no partially inserted
\* entry, and Add calls completing after All() returned do not change that list.
C21_AllIsSnapshot == [] AllIsSnapshot /\ [][AllResultKept]_vars

\* All returned a list of some but not all symbols, and every Add made since has returned
C21_Witness ==
    /\ \A c \in Adders : cdone[c] = AddsPerCaller /\ cpc[c] = "idle"
    /\ \E c \in Readers : AllCallOf(c) /\ cpc[c] = "idle" /\ cdone[c] >= 1
                           /\ Len(cres[c]) \in 1..(NumAdders * AddsPerCaller - 1)

\* ------------------------------------------------------------------ claim C22
\* the references the resolver processes, as <<symbol, field, index>>, read from the
\* registry as ResolveAll found it
RefText(r) ==
    IF r[2] = "SeeAlso" THEN cleanRef(heap0[r[1]].SeeAlso[r[3]]) ELSE heap0[r[1]][r[2]][r[3]]
ProcessedRefs ==
    {r \in UNION {{<<a, f, i>> : i \in 1..Len(heap0[a][f])} :
                     a \in All, f \in {"Extends", "Implements", "SeeAlso"}} :
        /\ r[2] = "SeeAlso" => r[3] \in seeIndices(heap0[r[1]].SeeAlso)
        /\ r[2] # "SeeAlso" => heap0[r[1]].Kind \in {"class", "interface"}}
MissedRefs == {r \in ProcessedRefs : findSymbol(RefText(r)) = NIL}

\* C22: every resolution miss is recorded in Stats: after ResolveAll, Stats.Unresolved
\* equals the number of Extends, Implements and non-empty @see entries that could not be
\* uniquely resolved.
C22_MissesCounted ==
    ResolveAllOver => stats.Unresolved = Cardinality(MissedRefs)

\* ------------------------------------------------------------------ claim C23
\* the override pass is at method a: its loop body runs in this step
OverrideStepOf(a) == rpass = 4 /\ a \in rtodo /\ a \notin rtodo' /\ heap[a].Kind = "method"

\* a has no owner, an owner the registry does not hold, or an owner none of whose
\* Extends entries names a symbol
Inconsistent(a) ==
    \/ heap[a].ParentID = <<>>
    \/ Get(heap[a].ParentID) = NIL
    \/ /\ heap[Get(heap[a].ParentID)].Extends # <<>>
       /\ \A x \in SeqToSet(heap[Get(heap[a].ParentID)].Extends) : Get(x) = NIL

\* C23: structural inconsistency is skipped, never fatal: for a method whose ParentID
\* is empty or names no symbol, or whose owner's Extends entry names no symbol, the
\* override pass leaves Overrides empty, changes no UsedBy list and no counter, and
\* continues with the remaining methods.
C23_InconsistencySkipped ==
    [][\A a \in 1..Len(heap) : (OverrideStepOf(a) /\ Inconsistent(a)) =>
          /\ heap' = heap /\ heap[a].Overrides = <<>>
          /\ stats' = stats
          /\ rpass' = 4 /\ rtodo' = rtodo \ {a}]_vars

\* the pass skipped a method of each inconsistent sort and went on to set an override
C23_Witness ==
    /\ ResolveAllOver
    /\ \E a \in All : heap[a].Kind = "method" /\ Get(heap[a].ParentID) = NIL
                       /\ heap[a].Overrides = <<>>
    /\ \E a \in All : heap[a].Kind = "method" /\ Inconsistent(a)
                       /\ Get(heap[a].ParentID) # NIL /\ heap[a].Overrides = <<>>
    /\ \E a \in All : heap[a].Overrides # <<>>

\* ------------------------------------------------------------------ claim C24
\* the entries of the reference fields, as <<symbol, field, index>>
RefEntries ==
    UNION {{<<a, f, i>> : i \in 1..Len(heap[a][f])} :
             a \in 1..Len(heap), f \in {"Extends", "Implements", "SeeAlso"}}
EntryNow(r) == heap[r[1]][r[2]][r[3]]
EntryStored(r) == heap0[r[1]][r[2]][r[3]]

\* C24: after ResolveAll every entry of Extends, Implements and Doc.SeeAlso of every
\* symbol is either the ID of a symbol present in the Registry or character for
\* character the string the extractor stored, and a non-empty Overrides is the ID of
\* a symbol present in the Registry.
C24_ResolvedOrUntouched ==
    ResolveAllOver =>
        /\ \A a \in 1..Len(heap) : \A f \in {"Extends", "Implements", "SeeAlso"} :
              Len(heap[a][f]) = Len(heap0[a][f])
        /\ \A r \in RefEntries : EntryNow(r) \in IDs \/ EntryNow(r) = EntryStored(r)
        /\ \A a \in 1..Len(heap) : heap[a].Overrides # <<>> => heap[a].Overrides \in IDs

\* one entry was rewritten to an ID, one that is no ID kept its text with its
\* parentheses, and an Overrides was set
C24_Witness ==
    /\ ResolveAllOver
    /\ \E r \in RefEntries : EntryNow(r) \in IDs /\ EntryNow(r) # EntryStored(r)
    /\ \E r \in RefEntries : /\ EntryNow(r) \notin IDs /\ EntryNow(r) = EntryStored(r)
                              /\ HasSuffix(EntryNow(r), Str_parens)
    /\ \E a \in 1..Len(heap) : heap[a].Overrides # <<>>

\* ------------------------------------------------------------------ claim C25
\* the ParseFiles call of phase ph has returned
Returned(ph) == IF ph = "php" THEN phase # "php" ELSE mainpc \notin {"parse", "wait"}
\* the workers that received file f from the channel and have not yet called parseFile
Holders(f) == {w \in Workers : wpc[w] = "parse" /\ wfile[w] = f}

HookFixed(id) ==
    LET s == heap[Get(id)]
    IN  [ID |-> s.ID, Name |-> s.Name, HookType |-> s.HookType, HookTag |-> s.HookTag,
         File |-> s.File, SeeAlso |-> s.SeeAlso]
HookIDs == {id \in DOMAIN symbols : heap[symbols[id]].Kind = "hook"}

\* C26: the first call site of a tag fixes the Hook symbol: once the registry holds a
\* Hook symbol for a tag, no later step of the ingestion (no later call site of that
\* tag) changes its Doc, HookType, HookTag, Name, ID or Location; only CallSites grows.
C26_FirstCallSiteFixesHook ==
    [][\A id \in HookIDs :
          /\ id \in HookIDs'
          /\ HookFixed(id)' = HookFixed(id)
          /\ IsPrefix(heap[Get(id)].CallSites, (heap[Get(id)].CallSites)')]_vars

\* ------------------------------------------------------------------ claim C27
\* method a has its name defined on a grandparent (a type named in the Extends list of
\* a type its owner extends) and on no type its owner extends
OnGrandparentOnly(a) ==
    /\ heap[a].Kind = "method" /\ Get(heap[a].ParentID) # NIL
    /\ \A p \in SeqToSet(heap[Get(heap[a].ParentID)].Extends) :
          Get(p \o Str_dcolon \o heap[a].Name) = NIL
    /\ \E p \in SeqToSet(heap[Get(heap[a].ParentID)].Extends) :
          /\ Get(p) # NIL
          /\ \E g \in SeqToSet(heap[Get(p)].Extends) :
                Get(g) # NIL /\ Get(g \o Str_dcolon \o heap[a].Name) # NIL

AddedHookEntries ==
    UNION {{<<h, i>> : i \in (Len(heap0[h].UsedBy) + 1)..Len(heap[h].UsedBy)} :
             h \in {a \in 1..Len(heap) : heap[a].Kind = "hook"}}

SeeNames == {<<"f">>, <<"n", "/", "f">>, <<"x", "\\", "f">>, <<"B", ":", ":", "s">>,
             <<"X", ":", ":", "s">>, <<"z">>, <<"g">>}
Blanks == {<<>>, <<" ">>}

\* the entry X(), with or without blanks around it, is looked up as the entry X is
SeeNormalised ==
    \A X \in SeeNames : \A pre \in Blanks : \A post \in Blanks :
        findSymbol(cleanRef(pre \o X \o Str_parens \o post)) = findSymbol(cleanRef(X))

\* the @see pass at symbol a: its loop body runs in this step
SeeStepOf(a) == rpass = 3 /\ a \in rtodo /\ a \notin rtodo'
NonEmptyEntries(list) == {i \in 1..Len(list) : \E j \in 1..Len(list[i]) : list[i][j] # " "}
FoundEntries(list) ==
    {i \in NonEmptyEntries(list) : SpecLookup(SeeName(list[i]), AllSeps) # NIL}

\* each non-empty entry adds one to Resolved if it is found and one to Unresolved if
\* not; an entry that is empty once trimmed is left alone and counted nowhere
SeeCounted ==
    \A a \in 1..Len(heap) : SeeStepOf(a) =>
        /\ stats'.Resolved = stats.Resolved + Cardinality(FoundEntries(heap[a].SeeAlso))
        /\ stats'.Unresolved = stats.Unresolved
                                 + Cardinality(NonEmptyEntries(heap[a].SeeAlso))
                                 - Cardinality(FoundEntries(heap[a].SeeAlso))
        /\ stats'.Inheritance = stats.Inheritance
        /\ stats'.HookBindings = stats.HookBindings
        /\ \A i \in 1..Len(heap[a].SeeAlso) :
              /\ i \notin NonEmptyEntries(heap[a].SeeAlso)
                    => heap'[a].SeeAlso[i] = heap[a].SeeAlso[i]
              /\ i \in FoundEntries(heap[a].SeeAlso)
                    => heap'[a].SeeAlso[i]
                         = heap[SpecLookup(SeeName(heap[a].SeeAlso[i]), AllSeps)].ID

\* C29: @see normalisation and counting: for every registry content an entry written
\* X(), optionally surrounded by whitespace, resolves to the same symbol, or fails,
\* exactly as the entry X does; entries that are empty after trimming are skipped and
\* counted nowhere; and each non-empty entry increases exactly one of Stats.Resolved and
\* Stats.Unresolved by one.
C29_SeeNormalisedAndCounted == [] SeeNormalised /\ [][SeeCounted]_vars

\* ResolveAll is over on a docblock  @see f()  @see f  @see <blank>: the first two
\* entries are the same ID, the third is as it was, and two references are counted
C29_Witness ==
    /\ ResolveAllOver
    /\ \E a \in All :
          /\ heap0[a].SeeAlso = <<Str_fcall, Str_f, <<>>>>
          /\ heap[a].SeeAlso[1] \in IDs /\ heap[a].SeeAlso[2] = heap[a].SeeAlso[1]
          /\ heap[a].SeeAlso[3] = <<>>
    /\ stats.Resolved = 2 /\ stats.Unresolved = 0

\* ------------------------------------------------------------------ claim C30
\* the entries the run added to the UsedBy list of symbol a
AddedUsers(a) ==
    {heap[a].UsedBy[i] : i \in (Len(heap0[a].UsedBy) + 1)..Len(heap[a].UsedBy)}

\* C30: edges created by the resolver are bidirectional: after ResolveAll every method
\* with a non-empty Overrides = p has p in the Registry and its ID in p.UsedBy; and
\* every ID the resolver added to the UsedBy list of a hook or a method is the ID of a
\* symbol of the Registry whose Uses names that hook's tag or whose Overrides is that
\* method's ID.
C30_EdgesBidirectional ==
    ResolveAllOver =>
        /\ \A a \in All : (heap[a].Kind = "method" /\ heap[a].Overrides # <<>>) =>
              /\ Get(heap[a].Overrides) # NIL
              /\ heap[a].ID \in SeqToSet(heap[Get(heap[a].Overrides)].UsedBy)
        /\ \A a \in All : \A u \in AddedUsers(a) :
              /\ heap[a].Kind \in {"hook", "method"}
              /\ Get(u) # NIL
              /\ heap[a].Kind = "hook" => heap[a].HookTag \in SeqToSet(heap[Get(u)].Uses)
              /\ heap[a].Kind = "method" => heap[Get(u)].Overrides = heap[a].ID

\* ResolveAll is over; it set an override and bound a function or method to a hook
C30_Witness ==
    /\ ResolveAllOver
    /\ \E a \in All : heap[a].Kind = "method" /\ heap[a].Overrides # <<>>
    /\ \E a \in All : heap[a].Kind = "hook" /\ AddedUsers(a) # {}
    /\ \E a \in All : heap[a].Kind = "method" /\ AddedUsers(a) # {}

\* ------------------------------------------------------------------ claim C31
\* the files that parsed whose function adds a callback to a tag that is fired
Listeners ==
    {f \in AllParsed \cap PHPFileIds :
        f % 3 = 1 /\ \E i \in 1..Len(ListenerBody) :
                        ~isHook(ListenerBody[i]) /\ ListenerBody[i].tag \in FiredTags}

\* no hook has a user and no hook binding was counted
NoHookBindings ==
    /\ stats.HookBindings = 0
    /\ \A a \in 1..Len(heap) : heap[a].Kind = "hook" => heap[a].UsedBy = <<>>
    /\ \A a \in 1..Len(heap) : heap[a].Uses = <<>>

\* C31: the pipeline connects symbols through hook bindings: a full run (extraction
\* followed by ResolveAll) over a tree in which a function adds a callback to a tag
\* that is fired ends with some hook's UsedBy non-empty and Stats.HookBindings > 0.
C31_PipelineBindsHooks ==
    (ResolveAllOver /\ workers >= 1 /\ Listeners # {}) =>
        /\ stats.HookBindings > 0
        /\ \E a \in All : heap[a].Kind = "hook" /\ heap[a].UsedBy # <<>>

\* ------------------------------------------------------------------ claim C32
\* C32: no self-edges: after ResolveAll no class or interface has its own ID in its
\* Extends or Implements list, and no method has Overrides equal to its own ID or its
\* own ID in its own UsedBy list, for every registry content.
C32_NoSelfEdges ==
    ResolveAllOver =>
        \A a \in All :
            /\ heap[a].Kind \in {"class", "interface"} =>
                  heap[a].ID \notin SeqToSet(heap[a].Extends) \cup SeqToSet(heap[a].Implements)
            /\ heap[a].Kind = "method" =>
                  /\ heap[a].Overrides # heap[a].ID
                  /\ heap[a].ID \notin SeqToSet(heap[a].UsedBy)

\* ------------------------------------------------------------------ claim C33
\* the entries of the by-kind and by-file lists, as <<key, index>>
KindEntries == UNION {{<<k, i>> : i \in 1..Len(ByKind(k))} : k \in DOMAIN byKind}
FileEntries == UNION {{<<f, i>> : i \in 1..Len(ByFile(f))} : f \in DOMAIN byFile}
ListedSymbols ==
    {ByKind(e[1])[e[2]] : e \in KindEntries} \cup {ByFile(e[1])[e[2]] : e \in FileEntries}

\* C33 (as claimed): index consistency: in every reachable state every symbol returned
\* by ByKind(k) or ByFile(p) is the symbol Get returns for its ID, and the sum of the
\* lengths of all ByKind lists equals Count().
C33_IndexConsistencyAsClaimed ==
    /\ \A a \in ListedSymbols : Get(heap[a].ID) = a
    /\ Cardinality(KindEntries) = Count

\* C33 (amended): every symbol of the primary index is once in the list of its kind
\* and once in the list of its file; every symbol of a list has a kind and file equal to
\* the key, and Get returns for its ID that symbol or one added later under the same ID;
\* the lengths of the ByKind lists sum to the number of Add calls made, which is
\* Count() when the IDs added were pairwise distinct and more otherwise.
C33_IndexConsistencyAmended ==
    /\ \A a \in All : /\ Occurrences(ByKind(heap[a].Kind), a) = 1
                       /\ Occurrences(ByFile(heap[a].File), a) = 1
    /\ \A e \in KindEntries : heap[ByKind(e[1])[e[2]]].Kind = e[1]
    /\ \A e \in FileEntries : heap[ByFile(e[1])[e[2]]].File = e[1]
    /\ \A a \in ListedSymbols : Get(heap[a].ID) # NIL /\ Get(heap[a].ID) >= a
    /\ Cardinality(KindEntries) = Len(heap)
    /\ Cardinality(FileEntries) = Len(heap)
    /\ Count <= Len(heap)
    /\ Count = Len(heap) <=> \A a, b \in 1..Len(heap) : heap[a].ID = heap[b].ID => a = b

\* three Add calls were made, two of them with the same ID: a list holds a symbol that
\* Get no longer returns
C33_Witness ==
    /\ Len(heap) = MaxAdds /\ Count < Len(heap)
    /\ \E a \in ListedSymbols : Get(heap[a].ID) # a

\* ------------------------------------------------------------------ claim C34
\* the fields of sym the claim is about, its UsedBy as a set
FieldsUpToOrder(sym) ==
    [Extends |-> sym.Extends, Implements |-> sym.Implements, SeeAlso |-> sym.SeeAlso,
     Overrides |-> sym.Overrides, UsedBy |-> SeqToSet(sym.UsedBy)]

\* C34: ResolveAll is idempotent on symbol fields: a second run on a Registry the first
\* run resolved leaves Extends, Implements, Doc.SeeAlso, Overrides and the set of UsedBy
\* entries of every symbol as the first run left them, in every state of the second run.
C34_ResolveAllIdempotent ==
    first # <<>> =>
        \A a \in 1..Len(heap) : FieldsUpToOrder(heap[a]) = FieldsUpToOrder(first[1][a])

\* the second run is over on a registry in which the first run rewrote a reference,
\* set an Overrides and filled a UsedBy list, and it counted what the first counted
C34_Witness ==
    /\ SecondRunOver
    /\ \E a \in All : heap[a].Overrides # <<>>
    /\ \E a \in All : Len(heap[a].UsedBy) >= 2
    /\ stats.Resolved >= 2

\* ------------------------------------------------------------------ claim C35
TypeLike == {"class", "interface", "trait"}

InheritEntries ==
    {r \in RefEntries : r[2] # "SeeAlso" /\ heap[r[1]].Kind \in {"class", "interface"}}

ColonAt(ref) == CHOOSE k \in 0..Len(ref) :
    /\ k >= 2 => (ref[k] = ":" /\ ref[k - 1] = ":")
    /\ k < 2 => k = 0
    /\ \A j \in (k + 1)..Len(ref) : ~(j >= 2 /\ j > k /\ ref[j] = ":" /\ ref[j - 1] = ":")
MemberQualified(ref) ==
    /\ ColonAt(ref) >= 3
    /\ \A j \in (ColonAt(ref) + 1)..Len(ref) : ref[j] \notin AllSeps
OwnerOf(ref) == SubSeq(ref, 1, ColonAt(ref) - 2)
MemberOf(ref) == SubSeq(ref, ColonAt(ref) + 1, Len(ref))

\* the findSymbol calls made for a reference C::m that is the ID of no symbol
MemberLookups ==
    {i \in 1..Len(lookups) :
        /\ MemberQualified(lookups[i][1])
        /\ lookups[i][1] \notin IDs /\ Normalised(lookups[i][1]) \notin IDs}

\* C36 (as claimed): a member-qualified reference is not resolved across classes.  For
\* a reference C::m that is the ID of no symbol, findSymbol returns no symbol owned by
\* another class than C, and no free function or hook.
C36_NoCrossClassAsClaimed ==
    \A i \in MemberLookups :
        lookups[i][2] # NIL => heap[lookups[i][2]].ParentID = OwnerOf(lookups[i][1])

\* C36 (amended): a reference C::m that is the ID of no symbol is resolved by its
\* member name m alone.  findSymbol returns the one symbol whose Name is m when there
\* is exactly one, whoever owns it, and returns no symbol when there are none or
\* several.
C36_MemberNameOnlyAmended ==
    \A i \in MemberLookups :
        IF Cardinality(Named(MemberOf(lookups[i][1]))) = 1
        THEN lookups[i][2] \in Named(MemberOf(lookups[i][1]))
        ELSE lookups[i][2] = NIL

\* a reference X::s, X naming nothing, was looked up and the method s of another
\* class came back
C36_Witness ==
    \E i \in MemberLookups :
        /\ lookups[i][2] # NIL
        /\ heap[lookups[i][2]].Kind = "method"
        /\ heap[lookups[i][2]].ParentID # OwnerOf(lookups[i][1])

\* C37: every method symbol an extractor inserted, PHP or JS, has the ID
\* ParentID + "::" + Name, the ID under which the override pass looks for the method of
\* the superclass.
C37_MethodIDConvention ==
    \A a \in All :
        heap[a].Kind = "method" => heap[a].ID = heap[a].ParentID \o Str_dcolon \o heap[a].Name

\* C38: with a worker count of 0 and a non-empty file list, ParseFiles attempts every
\* file of the list before it returns.
C38_ZeroWorkersStillParse ==
    workers = 0 =>
        \A ph \in {"php", "js"} :
            Returned(ph) => \A f \in GivenFiles(ph) : attempted[f] >= 1

\* the symbols of registry.All() that pass p has visited
VisitedIn(p) == IF rpass > p THEN All ELSE IF rpass = p THEN All \ rtodo ELSE {}

\* the Extends and Implements entries pass 1 has rewritten: those of a visited class or
\* interface for which name lookup returned a symbol, now the ID of that symbol
RewrittenEntries ==
    {r \in InheritEntries :
        /\ r[1] \in VisitedIn(1)
        /\ SpecLookup(EntryStored(r), AllSeps) # NIL
        /\ EntryNow(r) = heap[SpecLookup(EntryStored(r), AllSeps)].ID}

\* the @see entries pass 3 has resolved
ResolvedSeeEntries ==
    {r \in RefEntries :
        /\ r[2] = "SeeAlso" /\ r[1] \in VisitedIn(3)
        /\ r[3] \in FoundEntries(heap0[r[1]].SeeAlso)}

\* the methods pass 4 has given an Overrides value
OverridingMethods ==
    {a \in VisitedIn(4) : heap[a].Overrides # <<>> /\ heap0[a].Overrides = <<>>}

CountersBalance ==
    Resolving =>
        /\ stats.Resolved = stats.Inheritance + stats.HookBindings
                              + Cardinality(ResolvedSeeEntries)
                              + Cardinality(OverridingMethods)
        /\ stats.Inheritance = Cardinality(RewrittenEntries)

CountersGrow ==
    (Resolving /\ rpass' >= rpass) =>
        \A c \in {"Resolved", "Unresolved", "Inheritance", "HookBindings"} :
            stats'[c] >= stats[c]

\* C39: counter accounting.  In every state reached during ResolveAll on a fresh
\* Resolver the four counters never decrease, Stats.Resolved is Stats.Inheritance plus
\* Stats.HookBindings plus the number of @see entries resolved plus the number of
\* methods given an Overrides value, and Stats.Inheritance is the number of Extends and
\* Implements entries rewritten.
C39_CounterAccounting == [] CountersBalance /\ [][CountersGrow]_vars

\* ResolveAll is over and each of the four passes has added to Stats.Resolved
C39_Witness ==
    /\ rpass = 5
    /\ stats.Inheritance >= 1 /\ stats.HookBindings >= 1
    /\ ResolvedSeeEntries # {} /\ OverridingMethods # {}
    /\ stats.Resolved >= 4

====
